---- MODULE Spec2Model ----
(***************************************************************************)
(* Retrieval pipeline of the workspace-scoped document chat backend:      *)
(* ingestion (upload_file), the vector store on its two backends           *)
(* (Pinecone index, MongoDB 'files' collection), deletion, search          *)
(* (search_similar, search_context with its reranker) and the chat turn    *)
(* that consumes the retrieved chunks (send_message).                      *)
(*                                                                         *)
(* Python values are modelled as follows.  A dict is a record whose        *)
(* DOMAIN is its key set (a missing key is a KeyError).  A str that the    *)
(* code only compares or concatenates is a string; a text the code         *)
(* searches in is a sequence of one-character strings.  A float            *)
(* similarity is kept in thousandths (1.0 is 1000).  A call that can       *)
(* raise returns a record with a field "raised".                           *)
(***************************************************************************)
EXTENDS Integers, Sequences, FiniteSets, TLC

VARIABLES
    vector_store,     \* VectorService.vector_store: "pinecone" or "mongodb"
    vector_services,  \* the vector_store of the VectorService each service constructed
    pinecone_index,   \* the Pinecone index: vector id -> vector
    files,            \* MongoDB collection 'files': file id -> document
    workspaces,       \* MongoDB collection 'workspaces': the ids present
    file_seq,         \* file documents inserted so far (an ObjectId is never reused)
    stored_ok,        \* the chunks a store_embeddings call returned True for, until deleted
    file_workspace,   \* file id -> the workspace it was uploaded to, kept after a delete
    openai_embeddings, \* EmbeddingService.openai_embeddings is set
    local_model,      \* EmbeddingService.local_model is set
    reranker_service, \* RerankerService: reranker_type, cross_encoder, openai_client
    retrieval_multiplier, \* RAGService.retrieval_multiplier
    max_candidates,   \* RAGService.max_candidates
    messages,         \* MongoDB collection 'messages', in insertion order
    chunker,          \* the _create_text_chunks call in progress, and its locals
    in_flight,        \* the requests served concurrently: request -> its position and locals
    llm_temperature,  \* ChatService.llm.temperature, in tenths
    last,             \* the last operation, its arguments and its outcome
    ops               \* store, add and delete operations performed so far

\* What the constructors fix for the lifetime of the services.
services == <<vector_store, vector_services, openai_embeddings, local_model, reranker_service,
              retrieval_multiplier, max_candidates>>

vars == <<services, pinecone_index, files, workspaces, file_seq, stored_ok,
          file_workspace, messages, chunker, in_flight, llm_temperature, last, ops>>

(***************************************************************************)
(* Bounds of the model.                                                    *)
(***************************************************************************)
MaxOps == 2
MaxFiles == 2
MaxChunks == 1
MaxTopK == 2
MaxMessages == 2
MaxRagChunks == 2
MaxTexts == 3
MaxCandidates == 3

\* MessageCreate.top_k: conint(ge=1, le=20)
TOP_K_LIMIT == 20

\* RERANKER_RETRIEVAL_MULTIPLIER and RERANKER_MAX_CANDIDATES: the defaults, and
\* the values the environment sets them to.
DEFAULT_RETRIEVAL_MULTIPLIER == 2
DEFAULT_MAX_CANDIDATES == 20
Multipliers == {1, 2, 3}
CandidateLimits == {5, 10, 20, 30}

Workspaces == {"w1", "w2"}

\* The services that construct a VectorService of their own.
Owners == {"FileService", "RAGService", "WorkspaceService"}

\* The requests the threaded server works on at the same time.
Requests == {"r1", "r2"}

\* OPENAI_TEMPERATURE, the default "0.7", in tenths.
DEFAULT_TEMPERATURE == 7
FileIdPool == <<"f1", "f2", "f3", "f4">>
ChunkIdPool == <<"0", "1", "2", "3">>
Filenames == {"a.txt", "c.txt", "b.exe"}

\* Embedding vectors with integer norms, so that every cosine is a rational.
Embeddings == {<<1, 0>>, <<2, 0>>, <<3, 4>>}

\* The vectors the embedding model answers for a query or a document.
Queries == {<<1, 0>>, <<3, 4>>}

\* (text, embedding) pairs a chunk can carry; <<>> is "no embedding".
ChunkBodies ==
    { [text |-> <<"a", "b">>, embedding |-> <<1, 0>>],
      [text |-> <<"A", "b">>, embedding |-> <<2, 0>>],
      [text |-> <<"c">>,      embedding |-> <<3, 4>>],
      [text |-> <<"d">>,      embedding |-> <<>>] }

Min(a, b) == IF a <= b THEN a ELSE b
Max(a, b) == IF a >= b THEN a ELSE b

Range(s) == {s[i] : i \in DOMAIN s}

\* s[:k] of Python, for k >= 0.
Take(s, k) == SubSeq(s, 1, Min(Len(s), k))

EmptyMap == [x \in {} |-> {}]

(***************************************************************************)
(* EmbeddingService.calculate_similarity: cosine similarity, in            *)
(* thousandths.  0 when an input is empty, when the dimensions differ      *)
(* (numpy raises, the handler returns 0.0) or when a norm is zero.         *)
(***************************************************************************)
RECURSIVE Dot(_, _)
Dot(a, b) == IF a = <<>> THEN 0 ELSE a[1] * b[1] + Dot(Tail(a), Tail(b))

ISqrt(n) == CHOOSE r \in 0..n : r * r <= n /\ (r + 1) * (r + 1) > n

Norm(a) == ISqrt(Dot(a, a))

calculate_similarity(embedding1, embedding2) ==
    IF embedding1 = <<>> \/ embedding2 = <<>> THEN 0
    ELSE IF Len(embedding1) # Len(embedding2) THEN 0
    ELSE IF Norm(embedding1) = 0 \/ Norm(embedding2) = 0 THEN 0
    ELSE (1000 * Dot(embedding1, embedding2)) \div (Norm(embedding1) * Norm(embedding2))

(***************************************************************************)
(* PineconeService                                                         *)
(***************************************************************************)
\* The id without the file.
create_chunk_id_nofile(workspace_id, file_id, chunk_id) ==
    workspace_id \o "_" \o chunk_id

\* f"{workspace_id}_{file_id}_{chunk_id}"
create_chunk_id(workspace_id, file_id, chunk_id) ==
    workspace_id \o "_" \o file_id \o "_" \o chunk_id

\* One vector of upsert_embeddings, built from one embeddings_data item.
PineconeVector(data) ==
    [ id |-> data.id,
      values |-> data.embedding,
      metadata |-> [ workspace_id |-> data.workspace_id,
                     file_id |-> data.file_id,
                     filename |-> data.filename,
                     chunk_id |-> data.chunk_id,
                     text |-> Take(data.text, 40000),
                     start_pos |-> data.start_pos,
                     end_pos |-> data.end_pos,
                     char_count |-> data.char_count ] ]

\* index.upsert(vectors=batch): a vector replaces the vector of the same id.
\* Of two vectors of one id in the batch the later stays.
IndexUpsert(index, batch) ==
    LET ids == {batch[i].id : i \in DOMAIN batch}
        Latest(id) == CHOOSE i \in DOMAIN batch :
                          /\ batch[i].id = id
                          /\ \A k \in DOMAIN batch : batch[k].id = id => k <= i
    IN [id \in DOMAIN index \cup ids |->
           IF id \in ids THEN batch[Latest(id)] ELSE index[id]]

batch_size == 100

\* The batches range(0, len(vectors), batch_size) cuts the vectors into.
NumBatches(vectors) == (Len(vectors) + batch_size - 1) \div batch_size
Batch(vectors, j) ==
    SubSeq(vectors, (j - 1) * batch_size + 1, Min(Len(vectors), j * batch_size))

RECURSIVE UpsertBatches(_, _, _, _)
UpsertBatches(index, vectors, j, upto) ==
    IF j > upto THEN index
    ELSE UpsertBatches(IndexUpsert(index, Batch(vectors, j)), vectors, j + 1, upto)

\* upsert_embeddings with the failure of a batch swallowed: it answers True.
upsert_embeddings_unchecked(index, embeddings_data, failing) ==
    LET vectors == [i \in DOMAIN embeddings_data |-> PineconeVector(embeddings_data[i])]
        n == NumBatches(vectors)
    IN [result |-> TRUE,
        index |-> UpsertBatches(index, vectors, 1,
                                IF failing \in 1..n THEN failing - 1 ELSE n)]

\* upsert_embeddings taking back the batches already sent when one fails.
upsert_embeddings_rollback(index, embeddings_data, failing) ==
    LET vectors == [i \in DOMAIN embeddings_data |-> PineconeVector(embeddings_data[i])]
        n == NumBatches(vectors)
    IN IF failing \in 1..n
       THEN [result |-> FALSE, index |-> index]
       ELSE [result |-> TRUE, index |-> UpsertBatches(index, vectors, 1, n)]

\* upsert_embeddings.  failing is the batch whose index.upsert raises (0: none);
\* the batches before it stay in the index and the call returns False.
upsert_embeddings(index, embeddings_data, failing) ==
    LET vectors == [i \in DOMAIN embeddings_data |-> PineconeVector(embeddings_data[i])]
        n == NumBatches(vectors)
    IN IF failing \in 1..n
       THEN [result |-> FALSE, index |-> UpsertBatches(index, vectors, 1, failing - 1)]
       ELSE [result |-> TRUE, index |-> UpsertBatches(index, vectors, 1, n)]

\* A match as query_embeddings formats it.
PineconeMatch(v, query_embedding) ==
    [ id |-> v.id,
      similarity |-> calculate_similarity(query_embedding, v.values),
      file_id |-> v.metadata.file_id,
      filename |-> v.metadata.filename,
      chunk_id |-> v.metadata.chunk_id,
      text |-> v.metadata.text,
      start_pos |-> v.metadata.start_pos,
      end_pos |-> v.metadata.end_pos ]

\* The sequences made of the k best of the matches S by descending score; the
\* index fixes no order among equal scores.
RECURSIVE BestFirst(_, _)
BestFirst(S, k) ==
    IF k <= 0 \/ S = {} THEN {<<>>}
    ELSE LET top == {m \in S : \A o \in S : o.similarity <= m.similarity}
         IN UNION { { <<m>> \o r : r \in BestFirst(S \ {m}, k - 1) } : m \in top }

\* query_embeddings without the metadata filter.
query_embeddings_nofilter(index, query_embedding, workspace_id, top_k, raises) ==
    IF raises THEN {<<>>}
    ELSE BestFirst({PineconeMatch(index[i], query_embedding) : i \in DOMAIN index}, top_k)

\* query_embeddings: index.query(vector, top_k, filter={'workspace_id': ...}).
\* The set of results the call can return; raises is "index.query raised".
query_embeddings(index, query_embedding, workspace_id, top_k, raises) ==
    IF raises THEN {<<>>}
    ELSE BestFirst({PineconeMatch(index[i], query_embedding) :
                       i \in {j \in DOMAIN index :
                                 index[j].metadata.workspace_id = workspace_id}},
                   top_k)

\* delete_by_file: index.delete(filter={'file_id': file_id}).
delete_by_file(index, file_id, raises) ==
    IF raises THEN [result |-> FALSE, index |-> index]
    ELSE [result |-> TRUE,
          index |-> [i \in {j \in DOMAIN index : index[j].metadata.file_id # file_id}
                        |-> index[i]]]

\* delete_by_workspace: index.delete(filter={'workspace_id': workspace_id}).
delete_by_workspace(index, workspace_id, raises) ==
    IF raises THEN [result |-> FALSE, index |-> index]
    ELSE [result |-> TRUE,
          index |-> [i \in {j \in DOMAIN index :
                               index[j].metadata.workspace_id # workspace_id}
                        |-> index[i]]]

(***************************************************************************)
(* Stable sort of a sequence of records by descending r[key]: Python's     *)
(* list.sort(key=..., reverse=True) keeps equal elements in input order.   *)
(***************************************************************************)
RECURSIVE InsertDesc(_, _, _)
InsertDesc(sorted, x, key) ==
    IF sorted = <<>> THEN <<x>>
    ELSE IF Head(sorted)[key] >= x[key]
         THEN <<Head(sorted)>> \o InsertDesc(Tail(sorted), x, key)
         ELSE <<x>> \o sorted

RECURSIVE SortDescFrom(_, _, _)
SortDescFrom(sorted, rest, key) ==
    IF rest = <<>> THEN sorted
    ELSE SortDescFrom(InsertDesc(sorted, Head(rest), key), Tail(rest), key)

SortDesc(s, key) == SortDescFrom(<<>>, s, key)

\* find_most_similar without the sort of line 156.
find_most_similar_unsorted(query_embedding, candidate_embeddings, top_k) ==
    IF query_embedding = <<>> \/ candidate_embeddings = <<>> THEN <<>>
    ELSE LET HasEmbedding(candidate) == "embedding" \in DOMAIN candidate
             kept == SelectSeq(candidate_embeddings, HasEmbedding)
             similarities ==
                 [i \in DOMAIN kept |->
                     [k \in DOMAIN kept[i] \cup {"similarity"} |->
                         IF k = "similarity"
                         THEN calculate_similarity(query_embedding, kept[i].embedding)
                         ELSE kept[i][k]]]
         IN Take(similarities, top_k)

\* EmbeddingService.find_most_similar.  A candidate without the key 'embedding'
\* is passed over (lines 147-148); the others are copied with their similarity.
find_most_similar(query_embedding, candidate_embeddings, top_k) ==
    IF query_embedding = <<>> \/ candidate_embeddings = <<>> THEN <<>>
    ELSE LET HasEmbedding(candidate) == "embedding" \in DOMAIN candidate
             kept == SelectSeq(candidate_embeddings, HasEmbedding)
             similarities ==
                 [i \in DOMAIN kept |->
                     [k \in DOMAIN kept[i] \cup {"similarity"} |->
                         IF k = "similarity"
                         THEN calculate_similarity(query_embedding, kept[i].embedding)
                         ELSE kept[i][k]]]
         IN Take(SortDesc(similarities, "similarity"), top_k)

(***************************************************************************)
(* FileRepository, on the 'files' collection.  A document is               *)
(* [workspace_id, filename, text_chunks, status, error]; error "" is None. *)
(***************************************************************************)
UPLOADED == "uploaded"
PROCESSING == "processing"
READY == "ready"
FAILED == "failed"

\* A TextChunk model (models/file.py): sequence, text, embedding.  Only a model
\* has the .dict() that add_text_chunks calls; a plain dict has not.
IsTextChunk(chunk) == DOMAIN chunk = {"sequence", "text", "embedding"}

create_file(fs, file_id, workspace_id, filename) ==
    [i \in DOMAIN fs \cup {file_id} |->
        IF i = file_id
        THEN [ workspace_id |-> workspace_id, filename |-> filename,
               text_chunks |-> <<>>, status |-> UPLOADED, error |-> "" ]
        ELSE fs[i]]

update_status(fs, file_id, status, error) ==
    IF file_id \notin DOMAIN fs THEN fs
    ELSE [fs EXCEPT ![file_id].status = status,
                    ![file_id].error = IF error # "" THEN error ELSE @]

find_by_filename(fs, workspace_id, filename) ==
    {i \in DOMAIN fs : fs[i].workspace_id = workspace_id /\ fs[i].filename = filename}

\* add_text_chunks: [chunk.dict() for chunk in chunks] raises AttributeError on a
\* plain dict and the bare except returns False; otherwise the chunks replace
\* text_chunks and the status becomes READY.
add_text_chunks(fs, file_id, chunks) ==
    IF \E i \in DOMAIN chunks : ~IsTextChunk(chunks[i])
    THEN [result |-> FALSE, files |-> fs]
    ELSE IF file_id \notin DOMAIN fs
    THEN [result |-> FALSE, files |-> fs]
    ELSE [result |-> TRUE,
          files |-> [fs EXCEPT ![file_id].text_chunks = chunks,
                               ![file_id].status = READY]]

file_repo_delete_file(fs, file_id) ==
    [ result |-> file_id \in DOMAIN fs,
      files |-> [i \in DOMAIN fs \ {file_id} |-> fs[i]] ]

file_repo_delete_by_workspace(fs, workspace_id) ==
    [i \in {j \in DOMAIN fs : fs[j].workspace_id # workspace_id} |-> fs[i]]

\* The pool positions of the file ids, the order the collection is scanned in.
RECURSIVE FilesInOrder(_, _)
FilesInOrder(fs, n) ==
    IF n > Len(FileIdPool) THEN <<>>
    ELSE (IF FileIdPool[n] \in DOMAIN fs THEN <<FileIdPool[n]>> ELSE <<>>)
         \o FilesInOrder(fs, n + 1)

RECURSIVE Flatten(_)
Flatten(ss) == IF ss = <<>> THEN <<>> ELSE Head(ss) \o Flatten(Tail(ss))

\* get_chunks_with_embeddings: the chunks with a non-empty embedding of the READY
\* files of the workspace, as the $project stage shapes them (a field the stored
\* chunk lacks, chunk_id, start_pos, end_pos, is absent from the result).
get_chunks_with_embeddings_anyws(fs, workspace_id) ==
    LET ids == FilesInOrder(fs, 1)
        NonEmpty(chunk) == chunk.embedding # <<>>
        OfFile(f) ==
            IF fs[f].status = READY /\ fs[f].text_chunks # <<>>
            THEN LET cs == SelectSeq(fs[f].text_chunks, NonEmpty)
                 IN [k \in DOMAIN cs |->
                        [ file_id |-> f, filename |-> fs[f].filename,
                          text |-> cs[k].text, embedding |-> cs[k].embedding ]]
            ELSE <<>>
    IN Flatten([n \in DOMAIN ids |-> OfFile(ids[n])])

get_chunks_with_embeddings(fs, workspace_id) ==
    LET ids == FilesInOrder(fs, 1)
        NonEmpty(chunk) == chunk.embedding # <<>>
        OfFile(f) ==
            IF fs[f].workspace_id = workspace_id /\ fs[f].status = READY
               /\ fs[f].text_chunks # <<>>
            THEN LET cs == SelectSeq(fs[f].text_chunks, NonEmpty)
                 IN [k \in DOMAIN cs |->
                        [ file_id |-> f, filename |-> fs[f].filename,
                          text |-> cs[k].text, embedding |-> cs[k].embedding ]]
            ELSE <<>>
    IN Flatten([n \in DOMAIN ids |-> OfFile(ids[n])])

(***************************************************************************)
(* VectorService                                                           *)
(***************************************************************************)
\* __init__: Pinecone when configured and initialised, else MongoDB for good.
VectorServiceInit(configured, pinecone_available) ==
    IF configured = "pinecone" /\ pinecone_available THEN "pinecone" ELSE "mongodb"

\* is_available: Pinecone stays selected only when it was initialised, and
\* file_repo is set whenever MongoDB is selected.
is_available(vs) == vs = "pinecone" \/ vs = "mongodb"

\* _store_in_pinecone.  chunk['chunk_id'] and chunk['text'] raise KeyError when
\* the key is missing; .get() supplies a default.
Get(chunk, key, default) == IF key \in DOMAIN chunk THEN chunk[key] ELSE default

EmbeddingData(workspace_id, file_id, chunk) ==
    [ id |-> create_chunk_id(workspace_id, file_id, chunk.chunk_id),
      embedding |-> chunk.embedding,
      workspace_id |-> workspace_id,
      file_id |-> file_id,
      filename |-> Get(chunk, "filename", ""),
      chunk_id |-> chunk.chunk_id,
      text |-> chunk.text,
      start_pos |-> Get(chunk, "start_pos", 0),
      end_pos |-> Get(chunk, "end_pos", 0),
      char_count |-> Get(chunk, "char_count", 0) ]

store_in_pinecone(index, workspace_id, file_id, text_chunks, failing) ==
    LET HasEmbedding(chunk) == Get(chunk, "embedding", <<>>) # <<>>
        kept == SelectSeq(text_chunks, HasEmbedding)
    IN IF \E i \in DOMAIN kept : {"chunk_id", "text"} \ DOMAIN kept[i] # {}
       THEN [raised |-> TRUE, result |-> FALSE, index |-> index]
       ELSE LET embeddings_data ==
                    [i \in DOMAIN kept |-> EmbeddingData(workspace_id, file_id, kept[i])]
            IN IF embeddings_data # <<>>
               THEN [raised |-> FALSE] @@ upsert_embeddings(index, embeddings_data, failing)
               ELSE [raised |-> FALSE, result |-> TRUE, index |-> index]

\* _store_in_mongodb
store_in_mongodb(fs, file_id, text_chunks) == add_text_chunks(fs, file_id, text_chunks)

\* store_embeddings: the result and the two stores afterwards.
store_embeddings(vs, index, fs, workspace_id, file_id, text_chunks, failing) ==
    IF ~is_available(vs) THEN [result |-> FALSE, index |-> index, files |-> fs]
    ELSE IF vs = "pinecone"
    THEN LET r == store_in_pinecone(index, workspace_id, file_id, text_chunks, failing)
         IN [result |-> ~r.raised /\ r.result, index |-> r.index, files |-> fs]
    ELSE LET r == store_in_mongodb(fs, file_id, text_chunks)
         IN [result |-> r.result, index |-> index, files |-> r.files]

\* _search_in_mongodb.  raises: the aggregation raised, and
\* get_chunks_with_embeddings answered [].
search_in_mongodb(fs, query_embedding, workspace_id, top_k, raises) ==
    LET file_chunks == IF raises THEN <<>>
                       ELSE get_chunks_with_embeddings(fs, workspace_id)
    IN IF file_chunks = <<>> THEN <<>>
       ELSE find_most_similar(query_embedding, file_chunks, top_k)

\* search_similar: the results the call can return.
search_similar(vs, index, fs, query_embedding, workspace_id, top_k, raises) ==
    IF ~is_available(vs) THEN {<<>>}
    ELSE IF vs = "pinecone"
    THEN query_embeddings(index, query_embedding, workspace_id, top_k, raises)
    ELSE {search_in_mongodb(fs, query_embedding, workspace_id, top_k, raises)}

\* delete_embeddings_by_file
delete_embeddings_by_file(vs, index, file_id, raises) ==
    IF ~is_available(vs) THEN [result |-> FALSE, index |-> index]
    ELSE IF vs = "pinecone" THEN delete_by_file(index, file_id, raises)
    ELSE [result |-> TRUE, index |-> index]

\* delete_embeddings_by_workspace
delete_embeddings_by_workspace(vs, index, workspace_id, raises) ==
    IF ~is_available(vs) THEN [result |-> FALSE, index |-> index]
    ELSE IF vs = "pinecone" THEN delete_by_workspace(index, workspace_id, raises)
    ELSE [result |-> TRUE, index |-> index]

(***************************************************************************)
(* ContentExtractor._create_text_chunks.  A document text is               *)
(* [len, space, punct, white]: its length and the positions (from 0) that  *)
(* hold ' ', one of '.', '!', '?', and any other whitespace; every other   *)
(* position holds a letter.  A chunk's text is the stripped slice          *)
(* [from, to) of the document.                                             *)
(***************************************************************************)
MAX_CHUNK_SIZE == 500
CHUNK_OVERLAP == 100

MaxOf(S) == CHOOSE m \in S : \A o \in S : o <= m
MinOf(S) == CHOOSE m \in S : \A o \in S : m <= o

\* text.rfind(ch, start, end) for the positions P that hold ch.
RFind(P, start, end) == MaxOf({i \in P : start <= i /\ i < end} \cup {-1})

\* The positions of text[start:end] that survive strip().
Kept(doc, start, end) ==
    {i \in start..(end - 1) : i \notin doc.space /\ i \notin doc.white}

\* text[start:end].strip(), as a slice of the document; from = to when empty.
Strip(doc, start, end) ==
    LET kept == Kept(doc, start, end)
    IN IF kept = {} THEN [from |-> start, to |-> start]
       ELSE [from |-> MinOf(kept), to |-> MaxOf(kept) + 1]

ChunkEnd(doc, start) ==
    LET end == Min(start + MAX_CHUNK_SIZE, doc.len)
        last_space == RFind(doc.space, start, end)
        last_punct == RFind(doc.punct, start, end)
    IN IF end < doc.len
       THEN IF last_space > start + MAX_CHUNK_SIZE \div 2 THEN last_space
            ELSE IF last_punct > start + MAX_CHUNK_SIZE \div 2 THEN last_punct + 1
            ELSE end
       ELSE end

\* Lines 197-209 with a sequence that counts every window, emitted or not.
ChunkPass_counting(start, sequence, chunks, end, chunk_text) ==
    LET emit == chunk_text.from # chunk_text.to
        chunk == [ sequence |-> sequence, text |-> chunk_text,
                   start_pos |-> start, end_pos |-> end,
                   char_count |-> chunk_text.to - chunk_text.from ]
    IN [ start |-> Max(start + MAX_CHUNK_SIZE - CHUNK_OVERLAP, end),
         sequence |-> sequence + 1,
         chunks |-> IF emit THEN Append(chunks, chunk) ELSE chunks ]

\* Lines 197-209 of a pass of the loop, once end and chunk_text are computed:
\* the locals start, sequence and chunks after the pass.
ChunkPass(start, sequence, chunks, end, chunk_text) ==
    LET emit == chunk_text.from # chunk_text.to
        chunk == [ sequence |-> sequence, text |-> chunk_text,
                   start_pos |-> start, end_pos |-> end,
                   char_count |-> chunk_text.to - chunk_text.from ]
    IN [ start |-> Max(start + MAX_CHUNK_SIZE - CHUNK_OVERLAP, end),
         sequence |-> IF emit THEN sequence + 1 ELSE sequence,
         chunks |-> IF emit THEN Append(chunks, chunk) ELSE chunks ]

\* One pass of the while loop, lines 179-213.
ChunkIteration(doc, start, sequence, chunks) ==
    ChunkPass(start, sequence, chunks, ChunkEnd(doc, start),
              Strip(doc, start, ChunkEnd(doc, start)))

RECURSIVE ChunkLoop(_, _, _, _)
ChunkLoop(doc, start, sequence, chunks) ==
    IF start >= doc.len THEN chunks
    ELSE LET after == ChunkIteration(doc, start, sequence, chunks)
         IN ChunkLoop(doc, after.start, after.sequence, after.chunks)

\* create_text_chunks with the span of a small text taken from the stripped text.
create_text_chunks_stripped_span(doc) ==
    IF Kept(doc, 0, doc.len) = {} THEN <<>>
    ELSE IF doc.len <= MAX_CHUNK_SIZE
    THEN << [ sequence |-> 0, text |-> Strip(doc, 0, doc.len),
              start_pos |-> Strip(doc, 0, doc.len).from,
              end_pos |-> Strip(doc, 0, doc.len).to, char_count |-> doc.len ] >>
    ELSE ChunkLoop(doc, 0, 0, <<>>)

create_text_chunks(doc) ==
    IF Kept(doc, 0, doc.len) = {} THEN <<>>
    ELSE IF doc.len <= MAX_CHUNK_SIZE
    THEN << [ sequence |-> 0, text |-> Strip(doc, 0, doc.len),
              start_pos |-> 0, end_pos |-> doc.len, char_count |-> doc.len ] >>
    ELSE ChunkLoop(doc, 0, 0, <<>>)

\* The document texts uploaded in the model.
Letters(n) == [len |-> n, space |-> {}, punct |-> {}, white |-> {}]
Words(n, w) == [len |-> n, space |-> {i \in 0..(n - 1) : i % w = w - 1},
                punct |-> {}, white |-> {}]
Docs == { Letters(0),
          [len |-> 3, space |-> {0, 1}, punct |-> {}, white |-> {2}],
          Letters(5),
          Words(1200, 7) }

\* The texts the chunker is called with: lengths around MAX_CHUNK_SIZE and of
\* several windows; blanks at the ends, at and past the middle of the first
\* window, everywhere, in every seventh position and over a stretch longer
\* than a window; a full stop before and after the point a window may break at;
\* a line feed.
ChunkTexts ==
    LET lens == {0, 3, MAX_CHUNK_SIZE, MAX_CHUNK_SIZE + 1, 900, 1300}
        spaces(n) == { {}, {0, n - 1}, {MAX_CHUNK_SIZE \div 2}, {300}, 0..(n - 1),
                       400..999, {i \in 0..(n - 1) : i % 7 = 6} }
        puncts == { {}, {350}, {480} }
        whites == { {}, {1} }
        text(n, sp, pu, wh) ==
            [ len |-> n,
              space |-> sp \cap 0..(n - 1),
              punct |-> (pu \cap 0..(n - 1)) \ sp,
              white |-> (wh \cap 0..(n - 1)) \ (sp \cup pu) ]
    IN UNION { { text(n, sp, pu, wh) :
                   sp \in spaces(n), pu \in puncts, wh \in whites } : n \in lens }

\* The one short document of the store's and the retrieval specifications.
ShortDocs == {Letters(5)}

\* extract_content of a .txt upload: the text and its chunks.
extract_content == [doc \in Docs |-> [chunks |-> create_text_chunks(doc)]]

(***************************************************************************)
(* EmbeddingService                                                        *)
(***************************************************************************)
\* is_available
embedding_is_available(openai, local) == openai \/ local

\* create_embeddings whose handler answers [] for a failure.
create_embeddings_short(texts, openai, local, vector, remote_fails, local_fails) ==
    LET ok == [i \in DOMAIN texts |-> vector]
    IN IF texts = <<>> THEN <<>>
       ELSE IF openai
       THEN IF ~remote_fails THEN ok
            ELSE IF local /\ ~local_fails THEN ok ELSE <<>>
       ELSE IF local
       THEN IF ~local_fails THEN ok ELSE <<>>
       ELSE <<>>

\* create_embeddings: one vector per text.  vector is what the model answers for
\* a text, remote_fails and local_fails say whether the backend call raises.
\* _create_openai_embeddings falls back to the local model for the call.
create_embeddings(texts, openai, local, vector, remote_fails, local_fails) ==
    LET ok == [i \in DOMAIN texts |-> vector]
        empty == [i \in DOMAIN texts |-> <<>>]
    IN IF texts = <<>> THEN <<>>
       ELSE IF openai
       THEN IF ~remote_fails THEN ok
            ELSE IF local /\ ~local_fails THEN ok ELSE empty
       ELSE IF local
       THEN IF ~local_fails THEN ok ELSE empty
       ELSE empty

(***************************************************************************)
(* FileService                                                             *)
(***************************************************************************)
SUPPORTED_FORMATS == {".txt", ".csv", ".docx"}

\* os.path.splitext(filename.lower())[1] of the file names of the model.
Ext(filename) == IF filename \in {"a.txt", "c.txt"} THEN ".txt" ELSE ".exe"

is_supported_format(filename) == Ext(filename) \in SUPPORTED_FORMATS

\* Lines 73-111 of upload_file: embed the chunks, store them, set the status.
\* chunk['chunk_id'] raises KeyError on a chunk without that key, and the
\* handler then marks the file FAILED.
ProcessChunks(vs, index, fs, workspace_id, file_id, filename, chunks, embedder, calls) ==
    LET embed == chunks # <<>> /\ embedding_is_available(embedder.openai, embedder.local)
        embeddings ==
            create_embeddings([i \in DOMAIN chunks |-> chunks[i].text],
                              embedder.openai, embedder.local, calls.vector,
                              calls.remote_fails, calls.local_fails)
        key_error == embed /\ \E i \in DOMAIN chunks : "chunk_id" \notin DOMAIN chunks[i]
        text_chunks ==
            IF ~embed THEN <<>>
            ELSE [i \in DOMAIN chunks |->
                     [ chunk_id |-> chunks[i].chunk_id,
                       text |-> chunks[i].text,
                       embedding |-> IF i <= Len(embeddings) THEN embeddings[i] ELSE <<>>,
                       start_pos |-> chunks[i].start_pos,
                       end_pos |-> chunks[i].end_pos,
                       char_count |-> chunks[i].char_count,
                       filename |-> filename ]]
        stored == store_embeddings(vs, index, fs, workspace_id, file_id,
                                   text_chunks, calls.failing)
        fallback == add_text_chunks(stored.files, file_id, text_chunks)
    IN IF key_error
       THEN [ index |-> index,
              files |-> update_status(fs, file_id, FAILED,
                                      "Content processing failed: 'chunk_id'"),
              embedded |-> TRUE, store_called |-> FALSE, vector_success |-> FALSE ]
       ELSE IF text_chunks = <<>>
       THEN [ index |-> index,
              files |-> update_status(fs, file_id, READY, ""),
              embedded |-> FALSE, store_called |-> FALSE, vector_success |-> FALSE ]
       ELSE [ index |-> stored.index,
              files |-> update_status(IF stored.result THEN stored.files
                                      ELSE fallback.files,
                                      file_id, READY, ""),
              embedded |-> TRUE, store_called |-> TRUE,
              vector_success |-> stored.result ]

\* upload_file.  embedder is the embedding service's state [openai, local]; calls
\* is what the backends do during the call: the vector the model answers, whether
\* the remote and the local model raise, and the upsert batch that fails (0: none).
\* The outcome: raised (the exception, "" when it returned), and the stores
\* afterwards.
upload_file(vs, index, fs, file_id, workspace_id, filename, doc, is_member, embedder, calls) ==
    LET unchanged(e) == [ raised |-> e, index |-> index, files |-> fs,
                          chunks |-> 0, embedded |-> FALSE,
                          store_called |-> FALSE, vector_success |-> FALSE ]
        chunks == extract_content[doc].chunks
        created == update_status(create_file(fs, file_id, workspace_id, filename),
                                 file_id, PROCESSING, "")
        done == ProcessChunks(vs, index, created, workspace_id, file_id, filename,
                              chunks, embedder, calls)
    IN IF ~is_member THEN unchanged("PermissionError")
       ELSE IF filename = "" THEN unchanged("ValidationError")
       ELSE IF ~is_supported_format(filename) THEN unchanged("ValidationError")
       ELSE IF find_by_filename(fs, workspace_id, filename) # {}
       THEN unchanged("ValidationError")
       ELSE [raised |-> "", chunks |-> Len(chunks)] @@ done

\* delete_file.  permitted: the user is the uploader or the workspace owner.
delete_file(vs, index, fs, file_id, permitted, pinecone_raises, storage_raises) ==
    LET deleted == delete_embeddings_by_file(vs, index, file_id, pinecone_raises)
        removed == file_repo_delete_file(fs, file_id)
    IN IF file_id \notin DOMAIN fs
       THEN [raised |-> "", result |-> FALSE, index |-> index, files |-> fs]
       ELSE IF ~permitted
       THEN [raised |-> "PermissionError", result |-> FALSE, index |-> index, files |-> fs]
       ELSE IF storage_raises
       THEN [raised |-> "", result |-> FALSE, index |-> deleted.index, files |-> fs]
       ELSE [raised |-> "", result |-> removed.result, index |-> deleted.index,
             files |-> removed.files]

(***************************************************************************)
(* WorkspaceService.delete_workspace, in its two versions.                 *)
(***************************************************************************)
\* services/workspace_service.py: the workspace document goes, its files and
\* their vectors stay ("TODO: Delete associated files").
delete_workspace(vs, index, fs, ws, workspace_id, is_owner) ==
    IF workspace_id \notin ws
    THEN [raised |-> "", result |-> FALSE, index |-> index, files |-> fs, workspaces |-> ws]
    ELSE IF ~is_owner
    THEN [raised |-> "PermissionError", result |-> FALSE, index |-> index,
          files |-> fs, workspaces |-> ws]
    ELSE [raised |-> "", result |-> TRUE, index |-> index, files |-> fs,
          workspaces |-> ws \ {workspace_id}]

\* backend/services/workspace_service.py: vectors, stored files, file documents
\* and the workspace document, in that order; the result of the vector delete is
\* not looked at.
backend_delete_workspace(vs, index, fs, ws, workspace_id, is_owner, pinecone_raises) ==
    LET deleted == delete_embeddings_by_workspace(vs, index, workspace_id, pinecone_raises)
    IN IF workspace_id \notin ws
       THEN [raised |-> "", result |-> FALSE, index |-> index, files |-> fs,
             workspaces |-> ws]
       ELSE IF ~is_owner
       THEN [raised |-> "PermissionError", result |-> FALSE, index |-> index,
             files |-> fs, workspaces |-> ws]
       ELSE [raised |-> "", result |-> TRUE, index |-> deleted.index,
             files |-> file_repo_delete_by_workspace(fs, workspace_id),
             workspaces |-> ws \ {workspace_id}]

(***************************************************************************)
(* RerankerService.  A relevance score is kept in thousandths; a hybrid    *)
(* score, 0.7 * rerank + 0.3 * original, in ten-thousandths.               *)
(***************************************************************************)
RerankerTypes == {"cross-encoder", "openai", "hybrid", "disabled"}

\* __init__: RERANKER_TYPE is kept as read; the cross-encoder is loaded whenever
\* it can be, and the OpenAI client exists whenever OPENAI_API_KEY is usable.
RerankerServiceInit(reranker_type, cross_encoder_loads, openai_key) ==
    [ reranker_type |-> reranker_type,
      cross_encoder |-> cross_encoder_loads,
      openai_client |-> openai_key ]

\* is_available
reranker_is_available(rs) == rs.cross_encoder \/ rs.openai_client

\* chunks[:top_k] returned as it is.  scored: relevance scores were computed and
\* applied; failed: the scoring backend was called and raised; input: the
\* caller's list and its dicts, as they are after the call.
Identity(chunks, top_k) ==
    [ chunks |-> Take(chunks, top_k), scored |-> FALSE, failed |-> FALSE,
      input |-> chunks ]

Failed(chunks, top_k) ==
    [ chunks |-> Take(chunks, top_k), scored |-> FALSE, failed |-> TRUE,
      input |-> chunks ]

\* _rerank_with_cross_encoder without the sort of line 94.
rerank_with_cross_encoder_unsorted(rs, chunks, top_k, predict) ==
    IF ~rs.cross_encoder THEN Identity(chunks, top_k)
    ELSE IF predict.raised \/ Len(predict.scores) < Len(chunks)
    THEN Failed(chunks, top_k)
    ELSE LET reranked_chunks ==
                 [i \in DOMAIN chunks |->
                     [ rerank_score |-> predict.scores[i],
                       original_score |-> Get(chunks[i], "score", 0) ] @@ chunks[i]]
         IN [ chunks |-> Take(reranked_chunks, top_k),
              scored |-> TRUE, failed |-> FALSE, input |-> chunks ]

\* _rerank_with_cross_encoder.  predict is what cross_encoder.predict does:
\* [raised, scores]; scores[i] past the end of scores is an IndexError.  Any
\* exception is caught and chunks[:top_k] is returned.
rerank_with_cross_encoder(rs, chunks, top_k, predict) ==
    IF ~rs.cross_encoder THEN Identity(chunks, top_k)
    ELSE IF predict.raised \/ Len(predict.scores) < Len(chunks)
    THEN Failed(chunks, top_k)
    ELSE LET reranked_chunks ==
                 [i \in DOMAIN chunks |->
                     [ rerank_score |-> predict.scores[i],
                       original_score |-> Get(chunks[i], "score", 0) ] @@ chunks[i]]
         IN [ chunks |-> Take(SortDesc(reranked_chunks, "rerank_score"), top_k),
              scored |-> TRUE, failed |-> FALSE, input |-> chunks ]

\* _rerank_with_openai.  completion is what the chat completion does: [raised,
\* scores], the scores parsed from the reply, possibly fewer than the chunks.  A
\* chunk past the end of scores is kept unscored and sorts as 0.
rerank_with_openai(rs, chunks, top_k, completion) ==
    IF ~rs.openai_client THEN Identity(chunks, top_k)
    ELSE IF completion.raised THEN Failed(chunks, top_k)
    ELSE LET scores == completion.scores
             reranked_chunks ==
                 [i \in DOMAIN chunks |->
                     IF i <= Len(scores)
                     THEN [ rerank_score |-> scores[i],
                            original_score |-> Get(chunks[i], "score", 0) ] @@ chunks[i]
                     ELSE chunks[i]]
             keyed == [i \in DOMAIN chunks |->
                          [ key |-> Get(reranked_chunks[i], "rerank_score", 0),
                            chunk |-> reranked_chunks[i] ]]
             sorted == SortDesc(keyed, "key")
         IN [ chunks |-> Take([i \in DOMAIN sorted |-> sorted[i].chunk], top_k),
              scored |-> TRUE, failed |-> FALSE, input |-> chunks ]

\* max(0, min(1, x)), in thousandths.
Clamp01(x) == Max(0, Min(1000, x))

\* _rerank_hybrid.  The cross-encoder pass is asked for all the chunks; when it
\* fell back, its chunks are the caller's dicts, they carry no rerank_score,
\* every .get() answers 0.0 and hybrid_score is written into the caller's dicts.
rerank_hybrid(rs, chunks, top_k, predict) ==
    IF ~rs.cross_encoder THEN Identity(chunks, top_k)
    ELSE LET crossed == rerank_with_cross_encoder(rs, chunks, Len(chunks), predict)
             cross_encoder_chunks == crossed.chunks
             Hybrid(chunk) ==
                 LET original_score == Get(chunk, "original_score", 0)
                     rerank_score == Get(chunk, "rerank_score", 0)
                     normalized_rerank == Clamp01((rerank_score + 1000) \div 2)
                     normalized_original == Clamp01(original_score)
                 IN 7 * normalized_rerank + 3 * normalized_original
             with_hybrid ==
                 [i \in DOMAIN cross_encoder_chunks |->
                     [hybrid_score |-> Hybrid(cross_encoder_chunks[i])]
                         @@ cross_encoder_chunks[i]]
         IN [ chunks |-> Take(SortDesc(with_hybrid, "hybrid_score"), top_k),
              scored |-> crossed.scored, failed |-> crossed.failed,
              input |-> IF crossed.scored THEN chunks ELSE with_hybrid ]

\* rerank_chunks.  answer is what the scoring backend does during the call.
rerank_chunks(rs, chunks, top_k, answer) ==
    IF chunks = <<>> \/ ~reranker_is_available(rs) THEN Identity(chunks, top_k)
    ELSE IF rs.reranker_type = "cross-encoder" /\ rs.cross_encoder
    THEN rerank_with_cross_encoder(rs, chunks, top_k, answer)
    ELSE IF rs.reranker_type = "openai" /\ rs.openai_client
    THEN rerank_with_openai(rs, chunks, top_k, answer)
    ELSE IF rs.reranker_type = "hybrid"
    THEN rerank_hybrid(rs, chunks, top_k, answer)
    ELSE Identity(chunks, top_k)

\* calculate_rerank_improvement.  A chunk is known by chunk.get('chunk_id', i),
\* its own position when it has no such key; of two chunks of one key the
\* dict keeps the later.  A mean is given as [total, count], count 0 for the
\* mean of no value, which the code reports as 0; score improvements are in
\* thousandths.  No chunk gives {}.
calculate_rerank_improvement(original_chunks, reranked_chunks) ==
    LET Key(chunks, i) == IF "chunk_id" \in DOMAIN chunks[i]
                          THEN [chunk_id |-> chunks[i].chunk_id]
                          ELSE [index |-> i - 1]
        Known(i) == \E j \in DOMAIN original_chunks :
                        Key(original_chunks, j) = Key(reranked_chunks, i)
        original_pos(i) ==
            CHOOSE j \in DOMAIN original_chunks :
                /\ Key(original_chunks, j) = Key(reranked_chunks, i)
                /\ \A k \in DOMAIN original_chunks :
                       Key(original_chunks, k) = Key(reranked_chunks, i) => k <= j
        original_score(i) == Get(reranked_chunks[i], "original_score", 0)
        rerank_score(i) == Get(reranked_chunks[i], "rerank_score", 0)
        Mean(values, counted) ==
            [ total |-> Dot(values, [i \in DOMAIN values |-> IF i \in counted THEN 1 ELSE 0]),
              count |-> Cardinality(counted) ]
        moved == {i \in DOMAIN reranked_chunks : Known(i)}
        improved == {i \in DOMAIN reranked_chunks : original_score(i) > 0}
    IN IF original_chunks = <<>> \/ reranked_chunks = <<>> THEN EmptyMap
       ELSE [ avg_position_change |->
                  Mean([i \in DOMAIN reranked_chunks |->
                           IF Known(i) THEN original_pos(i) - i ELSE 0], moved),
              avg_score_improvement |->
                  Mean([i \in DOMAIN reranked_chunks |->
                           IF original_score(i) > 0
                           THEN ((rerank_score(i) - original_score(i)) * 1000)
                                    \div original_score(i)
                           ELSE 0], improved),
              total_reranked |-> Len(reranked_chunks),
              reranking_applied |-> TRUE ]

(***************************************************************************)
(* Text search and query embedding.  A query and a chunk text are          *)
(* sequences of one-character strings.                                     *)
(***************************************************************************)
None == "None"

Whitespace == {" "}

\* str.strip()
RECURSIVE LStrip(_)
LStrip(s) == IF s # <<>> /\ Head(s) \in Whitespace THEN LStrip(Tail(s)) ELSE s

RECURSIVE RStrip(_)
RStrip(s) ==
    IF s # <<>> /\ s[Len(s)] \in Whitespace THEN RStrip(SubSeq(s, 1, Len(s) - 1)) ELSE s

str_strip(s) == RStrip(LStrip(s))

\* The letters of the model, lower-cased.
Lower(c) == IF c = "A" THEN "a" ELSE c

\* {'$regex': query, '$options': 'i'} for a query of letters and blanks: the
\* text contains the query, whatever the case.
RegexMatch(text, query) ==
    \E start \in 1..(Len(text) - Len(query) + 1) :
        \A i \in 1..Len(query) : Lower(text[start + i - 1]) = Lower(query[i])

\* FileRepository.search_text_chunks: the chunks of the READY files of the
\* workspace whose text matches, as the $project stage shapes them (a field the
\* stored chunk lacks is absent from the result), cut by $limit.  raises: the
\* aggregation raised, which the handler turns into [].
search_text_chunks(fs, workspace_id, query, top_k, raises) ==
    LET ids == FilesInOrder(fs, 1)
        Matches(chunk) == RegexMatch(chunk.text, query)
        Projected(f, chunk) ==
            [k \in {"file_id", "filename", "text"}
                   \cup ({"chunk_id", "start_pos", "end_pos"} \cap DOMAIN chunk) |->
                IF k = "file_id" THEN f
                ELSE IF k = "filename" THEN fs[f].filename
                ELSE chunk[k]]
        OfFile(f) ==
            IF fs[f].workspace_id = workspace_id /\ fs[f].status = READY
               /\ fs[f].text_chunks # <<>>
            THEN LET cs == SelectSeq(fs[f].text_chunks, Matches)
                 IN [k \in DOMAIN cs |-> Projected(f, cs[k])]
            ELSE <<>>
    IN IF raises THEN <<>>
       ELSE Take(Flatten([n \in DOMAIN ids |-> OfFile(ids[n])]), top_k)

\* EmbeddingService.create_single_embedding
create_single_embedding(text, openai, local, vector, remote_fails, local_fails) ==
    IF str_strip(text) = <<>> THEN <<>>
    ELSE LET embeddings ==
                 create_embeddings(<<text>>, openai, local, vector, remote_fails,
                                   local_fails)
         IN IF embeddings # <<>> THEN embeddings[1] ELSE <<>>

(***************************************************************************)
(* RAGService.  self is the service with what it reaches: [vector_store,   *)
(* index, files, embedder, reranker, retrieval_multiplier,                 *)
(* max_candidates].  calls is what the backends do during the call:        *)
(* vector, the embedding of the query; faults, the backends that raise,    *)
(* among "embedding", "vector" and "text"; answers, what the scoring       *)
(* backend may do.  A search answers [chunks, called, embedding_ok]: called *)
(* is the backends it called, embedding_ok that it held a non-empty query  *)
(* embedding.                                                              *)
(***************************************************************************)
\* _text_search with the default score of _semantic_search, 0.0.
text_search_zero_score(self, workspace_id, query, top_k, calls) ==
    LET results == search_text_chunks(self.files, workspace_id, query, top_k,
                                      "text" \in calls.faults)
    IN [ chunks |-> [i \in DOMAIN results |->
                        [ text |-> results[i].text,
                          score |-> Get(results[i], "similarity", 0),
                          file_id |-> Get(results[i], "file_id", None),
                          filename |-> Get(results[i], "filename", None),
                          sequence |-> Get(results[i], "sequence", None),
                          search_method |-> "text" ]],
         called |-> {"text"}, embedding_ok |-> FALSE ]

\* _text_search
text_search(self, workspace_id, query, top_k, calls) ==
    LET results == search_text_chunks(self.files, workspace_id, query, top_k,
                                      "text" \in calls.faults)
    IN [ chunks |-> [i \in DOMAIN results |->
                        [ text |-> results[i].text,
                          score |-> Get(results[i], "similarity", 500),
                          file_id |-> Get(results[i], "file_id", None),
                          filename |-> Get(results[i], "filename", None),
                          sequence |-> Get(results[i], "sequence", None),
                          search_method |-> "text" ]],
         called |-> {"text"}, embedding_ok |-> FALSE ]

\* _semantic_search: the answers the call can give.
semantic_search(self, workspace_id, query, top_k, calls) ==
    LET query_embedding ==
            create_single_embedding(query, self.embedder.openai, self.embedder.local,
                                    calls.vector, "embedding" \in calls.faults,
                                    "embedding" \in calls.faults)
        embedded == IF str_strip(query) # <<>> THEN {"embedding"} ELSE {}
        fallback == text_search(self, workspace_id, query, top_k, calls)
        Context(similar_chunks) ==
            [i \in DOMAIN similar_chunks |->
                [ id |-> Get(similar_chunks[i], "id", None),
                  start_pos |-> Get(similar_chunks[i], "start_pos", None),
                  end_pos |-> Get(similar_chunks[i], "end_pos", None),
                  text |-> similar_chunks[i].text,
                  score |-> Get(similar_chunks[i], "similarity", 0),
                  file_id |-> Get(similar_chunks[i], "file_id", None),
                  filename |-> Get(similar_chunks[i], "filename", None),
                  sequence |-> Get(similar_chunks[i], "sequence", None),
                  search_method |-> "semantic" ]]
    IN IF query_embedding = <<>>
       THEN {[ chunks |-> fallback.chunks, called |-> embedded \cup fallback.called,
               embedding_ok |-> FALSE ]}
       ELSE { IF \E i \in DOMAIN similar_chunks : "text" \notin DOMAIN similar_chunks[i]
              THEN [ chunks |-> fallback.chunks,
                     called |-> embedded \cup {"vector"} \cup fallback.called,
                     embedding_ok |-> TRUE ]
              ELSE [ chunks |-> Context(similar_chunks),
                     called |-> embedded \cup {"vector"}, embedding_ok |-> TRUE ] :
              similar_chunks \in search_similar(self.vector_store, self.index, self.files,
                                                query_embedding, workspace_id, top_k,
                                                "vector" \in calls.faults) }

\* Line 31 of search_context, without the upper limit.
retrieval_k_unlimited(top_k, multiplier, limit) == Max(top_k * multiplier, 10)

\* Line 31 of search_context.
retrieval_k(top_k, multiplier, limit) == Min(Max(top_k * multiplier, 10), limit)

\* The chunks with chunk['reranked'] = value.
Tagged(chunks, value) == [i \in DOMAIN chunks |-> [reranked |-> value] @@ chunks[i]]

\* Lines 29-59 of search_context: the outcomes of the call, each [raised,
\* results, initial_results, called, embedding_ok, failed, scored].  called is
\* the backends the call reached and failed those of them that raised; raised
\* is FALSE, the handlers of the stages having turned every exception into a
\* list.
SearchPipeline(self, workspace_id, query, top_k, calls) ==
    LET k == retrieval_k(top_k, self.retrieval_multiplier, self.max_candidates)
        retrieved ==
            IF embedding_is_available(self.embedder.openai, self.embedder.local)
            THEN semantic_search(self, workspace_id, query, k, calls)
            ELSE {text_search(self, workspace_id, query, k, calls)}
        Reranked(initial, answer) ==
            LET reranked == rerank_chunks(self.reranker, initial.chunks, top_k, answer)
            IN [ raised |-> FALSE,
                 results |-> Tagged(reranked.chunks, TRUE),
                 initial_results |-> initial.chunks,
                 called |-> initial.called \cup {"reranker"},
                 embedding_ok |-> initial.embedding_ok,
                 failed |-> (calls.faults \cap initial.called)
                            \cup (IF reranked.failed THEN {"reranker"} ELSE {}),
                 scored |-> reranked.scored ]
        Outcomes(initial) ==
            IF Len(initial.chunks) > top_k /\ reranker_is_available(self.reranker)
            THEN {Reranked(initial, answer) : answer \in calls.answers}
            ELSE {[ raised |-> FALSE,
                    results |-> Tagged(Take(initial.chunks, top_k), FALSE),
                    initial_results |-> initial.chunks,
                    called |-> initial.called,
                    embedding_ok |-> initial.embedding_ok,
                    failed |-> calls.faults \cap initial.called,
                    scored |-> FALSE ]}
    IN UNION {Outcomes(initial) : initial \in retrieved}

\* search_context without the test of line 26.
search_context_unguarded(self, workspace_id, query, top_k, calls) ==
    SearchPipeline(self, workspace_id, query, top_k, calls)

\* search_context
search_context(self, workspace_id, query, top_k, calls) ==
    IF str_strip(query) = <<>>
    THEN {[ raised |-> FALSE, results |-> <<>>, initial_results |-> <<>>,
            called |-> {}, embedding_ok |-> FALSE, failed |-> {},
            scored |-> FALSE ]}
    ELSE SearchPipeline(self, workspace_id, query, top_k, calls)

(***************************************************************************)
(* PromptManager and ChatService.                                          *)
(***************************************************************************)
\* format_user_context_message: chunk['text'], chunk['filename'],
\* chunk['start_pos'] and chunk['end_pos'] raise KeyError on a chunk without the
\* key.  prompt names the message built.
format_user_context_message(user_message, context_chunks, workspace_id) ==
    IF context_chunks # <<>>
    THEN IF \E i \in DOMAIN context_chunks :
               {"text", "filename", "start_pos", "end_pos"} \ DOMAIN context_chunks[i] # {}
         THEN [raised |-> "KeyError", prompt |-> None]
         ELSE [raised |-> "", prompt |-> "user_context"]
    ELSE IF workspace_id # None
    THEN [raised |-> "", prompt |-> "no_documents"]
    ELSE [raised |-> "", prompt |-> "user_only"]

\* The threads of the collection 'threads': t1 references workspace w1, t2 none.
Threads ==
    [ t \in {"t1", "t2"} |->
        [ user_id |-> "u1", workspace_id |-> IF t = "t1" THEN "w1" ELSE None ] ]

\* Lines 83-95 of send_message: the exception raised, "" when there is none.
thread_access(thread_id, user_id, is_member) ==
    IF thread_id \notin DOMAIN Threads THEN "ValidationError"
    ELSE IF Threads[thread_id].user_id # user_id THEN "PermissionError"
    ELSE IF Threads[thread_id].workspace_id # None /\ ~is_member THEN "PermissionError"
    ELSE ""

\* The outcome of a send_message that stopped before the try block.
Stopped(msgs, exception) ==
    [ raised |-> exception, response |-> FALSE, messages |-> msgs,
      searched |-> FALSE, context_chunks |-> <<>>, failed |-> {}, prompt |-> None ]

\* send_message: the outcomes of the call.  message_data is [content, use_rag,
\* top_k]; calls adds user_save_fails and ai_save_fails, create_message
\* answering None.  _generate_ai_response always answers a text.  response:
\* the call returned the stored assistant message.
send_message(self, msgs, thread_id, user_id, message_data, is_member, calls) ==
    IF thread_access(thread_id, user_id, is_member) # ""
    THEN {Stopped(msgs, thread_access(thread_id, user_id, is_member))}
    ELSE
    LET workspace_id == Threads[thread_id].workspace_id
        user_content == str_strip(message_data.content)
        searched == message_data.use_rag /\ workspace_id # None
        found == IF searched
                 THEN search_context(self, workspace_id, user_content,
                                     message_data.top_k, calls)
                 ELSE {[results |-> <<>>, failed |-> {}]}
        user_message == [thread_id |-> thread_id, role |-> "user"]
        ai_message == [thread_id |-> thread_id, role |-> "assistant"]
        Turn(context) ==
            LET prepared == format_user_context_message(user_content, context.results,
                                                        workspace_id)
                done == [ searched |-> searched, context_chunks |-> context.results,
                          failed |-> context.failed, prompt |-> prepared.prompt ]
            IN IF prepared.raised # ""
               THEN [raised |-> prepared.raised, response |-> FALSE,
                     messages |-> msgs] @@ done
               ELSE IF calls.user_save_fails
               THEN [raised |-> "", response |-> FALSE, messages |-> msgs] @@ done
               ELSE IF calls.ai_save_fails
               THEN [raised |-> "", response |-> FALSE,
                     messages |-> Append(msgs, user_message)] @@ done
               ELSE [raised |-> "", response |-> TRUE,
                     messages |-> msgs \o <<user_message, ai_message>>] @@ done
    IN {Turn(context) : context \in found}

(***************************************************************************)
(* The operations of the store, as actions.                                *)
(***************************************************************************)
\* The chunk dicts a caller hands to store_embeddings: chunk i of the list has
\* chunk_id ChunkIdPool[i].
ChunkDict(i, body, filename) ==
    [ chunk_id |-> ChunkIdPool[i], text |-> body.text, embedding |-> body.embedding,
      start_pos |-> 0, end_pos |-> Len(body.text), char_count |-> Len(body.text),
      filename |-> filename ]

\* The lists of at most n of the bodies.
BodyLists(of, n) == UNION {[1..m -> of] : m \in 0..n}

ChunkDictList(filename, bodies) ==
    [i \in DOMAIN bodies |-> ChunkDict(i, bodies[i], filename)]

\* The lists of chunk bodies a caller passes.
ChunkLists == BodyLists(ChunkBodies, MaxChunks)

\* The TextChunk models a caller hands to add_text_chunks.
TextChunkList(bodies) ==
    [i \in DOMAIN bodies |-> [ sequence |-> i - 1, text |-> bodies[i].text,
                               embedding |-> bodies[i].embedding ]]

\* The chunks with an embedding that a store_embeddings call is given, under the
\* ids the index knows them by.
Sent(workspace_id, file_id, text_chunks) ==
    { [ id |-> create_chunk_id(workspace_id, file_id, text_chunks[i].chunk_id),
        workspace_id |-> workspace_id, file_id |-> file_id,
        embedding |-> text_chunks[i].embedding ] :
        i \in {j \in DOMAIN text_chunks : text_chunks[j].embedding # <<>>} }

\* The recorded chunks that a delete left in the index.
StillStored(stored, index) == {c \in stored : c.id \in DOMAIN index}

\* upload_file of one of the documents docs, under one of the names, to one of
\* the workspaces.
Upload(docs, names, into) ==
    /\ file_seq < MaxFiles
    /\ \E workspace_id \in into, filename \in names, doc \in docs,
          member \in BOOLEAN, vector \in Queries, fails \in BOOLEAN,
          failing \in {0, 1} :
         LET file_id == FileIdPool[file_seq + 1]
             r == upload_file(vector_services.FileService, pinecone_index, files, file_id,
                              workspace_id, filename, doc,
                              member /\ workspace_id \in workspaces,
                              [openai |-> openai_embeddings, local |-> local_model],
                              [vector |-> vector, remote_fails |-> fails,
                               local_fails |-> fails, failing |-> failing])
         IN /\ files' = r.files
            /\ pinecone_index' = r.index
            /\ file_seq' = IF r.raised = "" THEN file_seq + 1 ELSE file_seq
            /\ file_workspace' =
                   IF r.raised = ""
                   THEN [f \in DOMAIN file_workspace \cup {file_id} |->
                            IF f = file_id THEN workspace_id ELSE file_workspace[f]]
                   ELSE file_workspace
            /\ last' = [ op |-> "upload_file", raised |-> r.raised,
                         file_id |-> file_id, text_len |-> doc.len,
                         embedder_fails |-> fails, failing |-> failing,
                         chunks |-> r.chunks, embedded |-> r.embedded,
                         store_called |-> r.store_called,
                         vector_success |-> r.vector_success ]
    /\ UNCHANGED <<services, in_flight, llm_temperature, chunker, messages, workspaces, stored_ok, ops>>

UploadFile == Upload(Docs, Filenames, Workspaces)

\* The uploads of the store's specification: one short document.
UploadShortFile == Upload(ShortDocs, Filenames, Workspaces)

\* store_embeddings, called for a file of the collection with its workspace and
\* one of the lists of chunk bodies.
Store(lists) ==
    /\ ops < MaxOps
    /\ \E file_id \in DOMAIN files, failing \in {0, 1}, bodies \in lists :
           LET text_chunks == ChunkDictList(files[file_id].filename, bodies)
               workspace_id == files[file_id].workspace_id
               r == store_embeddings(vector_services.FileService, pinecone_index, files,
                                     workspace_id, file_id, text_chunks, failing)
               sent == Sent(workspace_id, file_id, text_chunks)
               others == {c \in stored_ok : \A d \in sent : d.id # c.id}
           IN /\ files' = r.files
              /\ pinecone_index' = r.index
              /\ stored_ok' = IF r.result THEN others \cup sent ELSE others
              /\ last' = [ op |-> "store_embeddings", file_id |-> file_id,
                           text_chunks |-> text_chunks,
                           sent |-> Cardinality(sent), result |-> r.result ]
    /\ ops' = ops + 1
    /\ UNCHANGED <<services, in_flight, llm_temperature, chunker, messages, workspaces, file_seq, file_workspace>>

StoreEmbeddings == Store(ChunkLists)

\* add_text_chunks, called for a file of the collection with TextChunk models of
\* one of the lists of chunk bodies.
AddChunks(lists) ==
    /\ ops < MaxOps
    /\ \E file_id \in DOMAIN files, bodies \in lists :
         LET chunks == TextChunkList(bodies)
             r == add_text_chunks(files, file_id, chunks)
         IN /\ files' = r.files
            /\ last' = [ op |-> "add_text_chunks", file_id |-> file_id,
                         result |-> r.result ]
    /\ ops' = ops + 1
    /\ UNCHANGED <<services, in_flight, llm_temperature, chunker, messages, pinecone_index, workspaces, file_seq, stored_ok,
                   file_workspace>>

AddTextChunks == AddChunks(ChunkLists)

SearchSimilar ==
    /\ \E workspace_id \in Workspaces, query_embedding \in Queries,
          top_k \in 1..MaxTopK, raises \in BOOLEAN :
         \E results \in search_similar(vector_services.RAGService, pinecone_index, files,
                                       query_embedding, workspace_id, top_k, raises) :
           last' = [ op |-> "search_similar", workspace_id |-> workspace_id,
                     query_embedding |-> query_embedding, top_k |-> top_k,
                     raises |-> raises, results |-> results ]
    /\ UNCHANGED <<services, in_flight, llm_temperature, chunker, messages, pinecone_index, files, workspaces, file_seq,
                   stored_ok, file_workspace, ops>>

DeleteFile ==
    /\ ops < MaxOps
    /\ \E n \in 1..file_seq, permitted \in BOOLEAN,
          pinecone_raises \in BOOLEAN, storage_raises \in BOOLEAN :
         LET file_id == FileIdPool[n]
             r == delete_file(vector_services.FileService, pinecone_index, files, file_id,
                              permitted, pinecone_raises, storage_raises)
         IN /\ files' = r.files
            /\ pinecone_index' = r.index
            /\ stored_ok' = StillStored(stored_ok, r.index)
            /\ last' = [ op |-> "delete_file", file_id |-> file_id,
                         raised |-> r.raised, result |-> r.result ]
    /\ ops' = ops + 1
    /\ UNCHANGED <<services, in_flight, llm_temperature, chunker, messages, workspaces, file_seq, file_workspace>>

DeleteWorkspace ==
    /\ ops < MaxOps
    /\ \E workspace_id \in Workspaces, is_owner \in BOOLEAN :
         LET r == delete_workspace(vector_store, pinecone_index, files, workspaces,
                                   workspace_id, is_owner)
         IN /\ files' = r.files
            /\ pinecone_index' = r.index
            /\ workspaces' = r.workspaces
            /\ stored_ok' = StillStored(stored_ok, r.index)
            /\ last' = [ op |-> "delete_workspace", workspace_id |-> workspace_id,
                         raised |-> r.raised, result |-> r.result ]
    /\ ops' = ops + 1
    /\ UNCHANGED <<services, in_flight, llm_temperature, chunker, messages, file_seq, file_workspace>>

BackendDeleteWorkspace ==
    /\ ops < MaxOps
    /\ \E workspace_id \in Workspaces, is_owner \in BOOLEAN, pinecone_raises \in BOOLEAN :
         LET r == backend_delete_workspace(vector_services.WorkspaceService,
                                           pinecone_index, files,
                                           workspaces, workspace_id, is_owner,
                                           pinecone_raises)
         IN /\ files' = r.files
            /\ pinecone_index' = r.index
            /\ workspaces' = r.workspaces
            /\ stored_ok' = StillStored(stored_ok, r.index)
            /\ last' = [ op |-> "delete_workspace", workspace_id |-> workspace_id,
                         pinecone_raises |-> pinecone_raises,
                         raised |-> r.raised, result |-> r.result ]
    /\ ops' = ops + 1
    /\ UNCHANGED <<services, in_flight, llm_temperature, chunker, messages, file_seq, file_workspace>>

(***************************************************************************)
(* Retrieval and chat, as actions.                                         *)
(***************************************************************************)
\* The chunk bodies of the retrieval specifications: both texts match the
\* query "a", and the embeddings point in different directions.
RagBodies ==
    { [text |-> <<"a", "b">>, embedding |-> <<1, 0>>],
      [text |-> <<"A", "c">>, embedding |-> <<3, 4>>] }

\* The chunk lists a file is given: at most MaxRagChunks chunks, no body twice.
RagLists ==
    {bodies \in BodyLists(RagBodies, MaxRagChunks) :
        \A i, j \in DOMAIN bodies : bodies[i] = bodies[j] => i = j}

\* One file of one workspace holds the chunks.
RagFilenames == {"a.txt"}
RagWorkspaces == {"w1"}
RagQueries == {<<"a">>, <<" ">>}

\* The backends that raise during a call.
FaultSets == {{}, {"embedding"}, {"vector"}, {"text"}, {"embedding", "text"}}

\* What the scoring backend does: it raises, or answers scores, as many as the
\* candidates or fewer.
Answers ==
    { [raised |-> TRUE, scores |-> <<>>],
      [raised |-> FALSE, scores |-> <<-200, 800>>],
      [raised |-> FALSE, scores |-> <<800, -200>>],
      [raised |-> FALSE, scores |-> <<600>>] }

\* The RAGService and what it reaches, in the current state.
Self ==
    [ vector_store |-> vector_services.RAGService, index |-> pinecone_index,
      files |-> files,
      embedder |-> [openai |-> openai_embeddings, local |-> local_model],
      reranker |-> reranker_service,
      retrieval_multiplier |-> retrieval_multiplier,
      max_candidates |-> max_candidates ]

UploadRag == Upload(ShortDocs, RagFilenames, RagWorkspaces)
StoreRag == Store(RagLists)
AddRag == AddChunks(RagLists)

SearchContext ==
    /\ \E workspace_id \in RagWorkspaces, query \in RagQueries, top_k \in 1..MaxTopK,
          vector \in Queries, faults \in FaultSets :
         \E r \in search_context(Self, workspace_id, query, top_k,
                                 [vector |-> vector, faults |-> faults,
                                  answers |-> Answers]) :
           last' = [ op |-> "search_context", workspace_id |-> workspace_id,
                     query |-> query, top_k |-> top_k, raised |-> r.raised,
                     results |-> r.results, initial_results |-> r.initial_results,
                     called |-> r.called, embedding_ok |-> r.embedding_ok,
                     failed |-> r.failed, scored |-> r.scored ]
    /\ UNCHANGED <<services, in_flight, llm_temperature, chunker, messages, pinecone_index, files, workspaces, file_seq,
                   stored_ok, file_workspace, ops>>

\* Line 31 of search_context, for a top_k that MessageCreate admits.
RetrievalK ==
    /\ \E top_k \in 1..TOP_K_LIMIT :
         last' = [ op |-> "retrieval_k", top_k |-> top_k,
                   retrieval_k |-> retrieval_k(top_k, retrieval_multiplier,
                                               max_candidates) ]
    /\ UNCHANGED <<services, in_flight, llm_temperature, chunker, messages, pinecone_index, files, workspaces, file_seq,
                   stored_ok, file_workspace, ops>>

\* The message data and the backend behaviours of a send_message.
MessageData ==
    [content : RagQueries, use_rag : BOOLEAN, top_k : 1..MaxTopK]

ChatCalls ==
    { [ vector |-> vector, faults |-> faults, answers |-> Answers,
        user_save_fails |-> saves[1], ai_save_fails |-> saves[2] ] :
        vector \in Queries, faults \in FaultSets,
        saves \in {<<FALSE, FALSE>>, <<TRUE, FALSE>>, <<FALSE, TRUE>>} }

\* send_message.  A call that is refused reads neither the message nor a
\* backend, so one message and one behaviour stand for all of them.
SendMessage ==
    /\ Len(messages) < MaxMessages
    /\ \E thread_id \in {"t1", "t2", "t3"}, user_id \in {"u1", "u2"},
          is_member \in BOOLEAN :
         LET admitted == thread_access(thread_id, user_id, is_member) = ""
         IN \E message_data \in IF admitted THEN MessageData
                                 ELSE {CHOOSE d \in MessageData : TRUE},
               calls \in IF admitted THEN ChatCalls
                          ELSE {CHOOSE c \in ChatCalls : TRUE} :
              \E r \in send_message(Self, messages, thread_id, user_id, message_data,
                                    is_member, calls) :
                /\ messages' = r.messages
                /\ last' = [ op |-> "send_message", thread_id |-> thread_id,
                             use_rag |-> message_data.use_rag, raised |-> r.raised,
                             response |-> r.response, searched |-> r.searched,
                             context_chunks |-> r.context_chunks,
                             failed |-> r.failed, prompt |-> r.prompt,
                             save_fails |-> calls.user_save_fails
                                            \/ calls.ai_save_fails ]
    /\ UNCHANGED <<services, in_flight, llm_temperature, chunker, pinecone_index, files, workspaces, file_seq, stored_ok,
                   file_workspace, ops>>

\* The candidate lists handed to rerank_chunks: at most MaxCandidates chunks
\* with a text and a retrieval score, no chunk twice.
RerankLists ==
    LET candidates == { [text |-> <<"a">>, score |-> 900],
                        [text |-> <<"b">>, score |-> 300],
                        [text |-> <<"c">>, score |-> 300] }
    IN { chunks \in UNION {[1..n -> candidates] : n \in 0..MaxCandidates} :
            \A i, j \in DOMAIN chunks : chunks[i] = chunks[j] => i = j }

\* What the scoring backend does for them: it raises, or answers at most
\* MaxCandidates scores, some of them outside [-1, 1].
RerankAnswers ==
    {[raised |-> TRUE, scores |-> <<>>]}
    \cup { [raised |-> FALSE, scores |-> scores] :
             scores \in UNION {[1..n -> {-3000, 200, 2500}] : n \in 0..MaxCandidates} }

\* rerank_chunks, called once on a service as it was constructed.
RerankChunks ==
    /\ last.op = "init"
    /\ \E chunks \in RerankLists, top_k \in 1..MaxCandidates, answer \in RerankAnswers :
         LET r == rerank_chunks(reranker_service, chunks, top_k, answer)
         IN last' = [ op |-> "rerank_chunks", chunks |-> chunks, top_k |-> top_k,
                      answer |-> answer, result |-> r.chunks, input |-> r.input,
                      scored |-> r.scored, failed |-> r.failed ]
    /\ UNCHANGED <<services, in_flight, llm_temperature, chunker, messages, pinecone_index, files, workspaces,
                   file_seq, stored_ok, file_workspace, ops>>

\* The lists of at most MaxTexts texts.
EmbedTexts == UNION {[1..n -> RagQueries] : n \in 0..MaxTexts}

\* create_embeddings, called with one of the lists of texts.
CreateEmbeddings ==
    /\ \E texts \in EmbedTexts,
          vector \in Queries, remote_fails \in BOOLEAN, local_fails \in BOOLEAN :
         last' = [ op |-> "create_embeddings", texts |-> texts,
                   remote_fails |-> remote_fails, local_fails |-> local_fails,
                   embeddings |-> create_embeddings(texts, openai_embeddings,
                                                    local_model, vector,
                                                    remote_fails, local_fails) ]
    /\ UNCHANGED <<services, in_flight, llm_temperature, chunker, messages, pinecone_index, files, workspaces,
                   file_seq, stored_ok, file_workspace, ops>>

\* The vectors compared: empty, zero, of dimension 1, 2 and 3, with integer
\* norms.
SimilarityVectors ==
    {<<>>, <<0, 0>>, <<1, 0>>, <<0, 1>>, <<3, 4>>, <<2>>, <<1, 0, 0>>}

\* The candidate lists of find_most_similar: at most MaxCandidates candidates,
\* with an embedding, with an empty one or without the key.
SimilarityCandidates ==
    LET candidates == { [chunk_id |-> "a", embedding |-> <<1, 0>>],
                        [chunk_id |-> "b", embedding |-> <<2, 0>>],
                        [chunk_id |-> "c", embedding |-> <<3, 4>>],
                        [chunk_id |-> "d"],
                        [chunk_id |-> "e", embedding |-> <<>>],
                        [chunk_id |-> "f", embedding |-> <<2>>] }
    IN UNION {[1..n -> candidates] : n \in 0..MaxCandidates}

\* calculate_similarity, called once on two of the vectors.
CalculateSimilarity ==
    /\ last.op = "init"
    /\ \E embedding1 \in SimilarityVectors, embedding2 \in SimilarityVectors :
         last' = [ op |-> "calculate_similarity", embedding1 |-> embedding1,
                   embedding2 |-> embedding2,
                   similarity |-> calculate_similarity(embedding1, embedding2) ]
    /\ UNCHANGED <<services, in_flight, llm_temperature, chunker, messages, pinecone_index, files, workspaces,
                   file_seq, stored_ok, file_workspace, ops>>

\* find_most_similar, called once on one of the candidate lists.
FindMostSimilar ==
    /\ last.op = "init"
    /\ \E query_embedding \in SimilarityVectors,
          candidate_embeddings \in SimilarityCandidates, top_k \in 0..MaxCandidates :
         last' = [ op |-> "find_most_similar", query_embedding |-> query_embedding,
                   candidate_embeddings |-> candidate_embeddings, top_k |-> top_k,
                   result |-> find_most_similar(query_embedding, candidate_embeddings,
                                                top_k) ]
    /\ UNCHANGED <<services, in_flight, llm_temperature, chunker, messages, pinecone_index, files, workspaces,
                   file_seq, stored_ok, file_workspace, ops>>

\* search_context_with_rerank_metrics, lines 135-151: the metrics of a rerank
\* of more than top_k retrieved chunks.
RerankImprovement ==
    /\ last.op = "rerank_chunks"
    /\ Len(last.chunks) > last.top_k
    /\ reranker_is_available(reranker_service)
    /\ last' = [ op |-> "calculate_rerank_improvement",
                 original_chunks |-> last.chunks, reranked_chunks |-> last.result,
                 metrics |-> calculate_rerank_improvement(last.chunks, last.result) ]
    /\ UNCHANGED <<services, in_flight, llm_temperature, chunker, messages,
                   pinecone_index, files, workspaces, file_seq, stored_ok,
                   file_workspace, ops>>

(***************************************************************************)
(* upload_file under concurrent requests.  A request is at "idle" before    *)
(* the call, at "checked" once lines 23-45 let it pass, at "rejected" when  *)
(* they raised, at "done" after the return.  Each call of the collection is *)
(* atomic; nothing orders the find of line 35 and the insert of line 58 of  *)
(* two requests.                                                           *)
(***************************************************************************)
\* Lines 23-45, for a member of the workspace: the format and the duplicate check.
UploadCheck ==
    /\ \E request \in Requests, workspace_id \in Workspaces, filename \in Filenames :
         /\ in_flight[request].pc = "idle"
         /\ in_flight' =
                [in_flight EXCEPT ![request] =
                    [ pc |-> IF ~is_supported_format(filename)
                                \/ find_by_filename(files, workspace_id, filename) # {}
                             THEN "rejected" ELSE "checked",
                      workspace_id |-> workspace_id, filename |-> filename ]]
    /\ UNCHANGED <<services, llm_temperature, chunker, messages, pinecone_index, files,
                   workspaces, file_seq, stored_ok, file_workspace, last, ops>>

\* Lines 47-145: the file document is inserted and the content processed.
UploadCreate ==
    /\ \E request \in Requests, doc \in ShortDocs, vector \in Queries :
         /\ in_flight[request].pc = "checked"
         /\ LET file_id == FileIdPool[file_seq + 1]
                workspace_id == in_flight[request].workspace_id
                filename == in_flight[request].filename
                created == update_status(create_file(files, file_id, workspace_id,
                                                     filename),
                                         file_id, PROCESSING, "")
                done == ProcessChunks(vector_services.FileService, pinecone_index, created,
                                      workspace_id, file_id, filename,
                                      extract_content[doc].chunks,
                                      [openai |-> openai_embeddings, local |-> local_model],
                                      [vector |-> vector, remote_fails |-> FALSE,
                                       local_fails |-> FALSE, failing |-> 0])
            IN /\ files' = done.files
               /\ pinecone_index' = done.index
               /\ file_workspace' =
                      [f \in DOMAIN file_workspace \cup {file_id} |->
                          IF f = file_id THEN workspace_id ELSE file_workspace[f]]
               /\ in_flight' = [in_flight EXCEPT ![request] =
                                [ pc |-> "done", workspace_id |-> workspace_id,
                                  filename |-> filename ]]
    /\ file_seq' = file_seq + 1
    /\ UNCHANGED <<services, llm_temperature, chunker, messages, workspaces, stored_ok,
                   last, ops>>

(***************************************************************************)
(* _create_text_chunks, one loop pass at a time.  chunker is [pc] when no   *)
(* call was made, and [pc, doc, chunks] from the call on, with the locals   *)
(* start and sequence once the else branch of line 174 assigned them: pc    *)
(* "loop" at the test of the while loop, "done" after the return.           *)
(***************************************************************************)
\* Lines 156-178: the call, up to the first test of the loop.
CreateTextChunks ==
    /\ chunker.pc = "idle"
    /\ \E doc \in ChunkTexts :
         chunker' =
             IF Kept(doc, 0, doc.len) = {} \/ doc.len <= MAX_CHUNK_SIZE
             THEN [ pc |-> "done", doc |-> doc, chunks |-> create_text_chunks(doc) ]
             ELSE [ pc |-> "loop", doc |-> doc, start |-> 0, sequence |-> 0,
                    chunks |-> <<>> ]
    /\ UNCHANGED <<services, in_flight, llm_temperature, messages, pinecone_index, files, workspaces, file_seq,
                   stored_ok, file_workspace, last, ops>>

\* One pass of the loop with a start that steps back by the overlap from the
\* end of the chunk, start = end - CHUNK_OVERLAP.
ChunkStep_overlap ==
    /\ chunker.pc = "loop"
    /\ \E end \in {ChunkEnd(chunker.doc, chunker.start)} :
         \E chunk_text \in {Strip(chunker.doc, chunker.start, end)} :
           \E after \in {ChunkPass(chunker.start, chunker.sequence, chunker.chunks,
                                   end, chunk_text)} :
             chunker' = [ pc |-> IF end - CHUNK_OVERLAP >= chunker.doc.len
                                 THEN "done" ELSE "loop",
                          doc |-> chunker.doc, start |-> end - CHUNK_OVERLAP,
                          sequence |-> after.sequence, chunks |-> after.chunks ]
    /\ UNCHANGED <<services, in_flight, llm_temperature, messages, pinecone_index, files, workspaces, file_seq,
                   stored_ok, file_workspace, last, ops>>

\* Lines 179-213: one pass of the loop; the break of line 212 and the test of
\* line 179 leave the loop on the same condition.
ChunkStep ==
    /\ chunker.pc = "loop"
    /\ \E end \in {ChunkEnd(chunker.doc, chunker.start)} :
         \E chunk_text \in {Strip(chunker.doc, chunker.start, end)} :
           \E after \in {ChunkPass(chunker.start, chunker.sequence, chunker.chunks,
                                   end, chunk_text)} :
             chunker' = [ pc |-> IF after.start >= chunker.doc.len THEN "done"
                                 ELSE "loop",
                          doc |-> chunker.doc, start |-> after.start,
                          sequence |-> after.sequence, chunks |-> after.chunks ]
    /\ UNCHANGED <<services, in_flight, llm_temperature, messages, pinecone_index, files, workspaces, file_seq,
                   stored_ok, file_workspace, last, ops>>

\* The state after the services are constructed: the vector backend is chosen
\* once, the embedder holds the remote model, the local model or neither, and
\* the stores are empty.
Init ==
    /\ \E configured \in {"pinecone", "mongodb"}, pinecone_available \in BOOLEAN :
         vector_store = VectorServiceInit(configured, pinecone_available)
    /\ vector_services = [owner \in Owners |-> vector_store]
    /\ \E e \in {<<TRUE, FALSE>>, <<FALSE, TRUE>>, <<FALSE, FALSE>>} :
         /\ openai_embeddings = e[1]
         /\ local_model = e[2]
    /\ \E reranker_type \in RerankerTypes, cross_encoder_loads \in BOOLEAN,
          openai_key \in BOOLEAN :
         reranker_service =
             RerankerServiceInit(reranker_type, cross_encoder_loads, openai_key)
    /\ retrieval_multiplier \in Multipliers
    /\ max_candidates \in CandidateLimits
    /\ messages = <<>>
    /\ chunker = [pc |-> "idle"]
    /\ in_flight = [request \in Requests |-> [pc |-> "idle"]]
    /\ llm_temperature = DEFAULT_TEMPERATURE
    /\ pinecone_index = EmptyMap
    /\ files = EmptyMap
    /\ workspaces = Workspaces
    /\ file_seq = 0
    /\ stored_ok = {}
    /\ file_workspace = EmptyMap
    /\ last = [op |-> "init"]
    /\ ops = 0

\* The environment left at its defaults: RERANKER_TYPE, the cross-encoder loaded,
\* no API key, and the two limits of the RAGService.
DefaultReranker == reranker_service = RerankerServiceInit("cross-encoder", TRUE, FALSE)

DefaultLimits ==
    /\ retrieval_multiplier = DEFAULT_RETRIEVAL_MULTIPLIER
    /\ max_candidates = DEFAULT_MAX_CANDIDATES

\* The store is exercised with the embedder absent: an upload then leaves a READY
\* file without chunks, which store_embeddings and add_text_chunks fill.
InitStore ==
    Init /\ ~openai_embeddings /\ ~local_model /\ DefaultReranker /\ DefaultLimits

Next ==
    \/ UploadShortFile
    \/ StoreEmbeddings
    \/ AddTextChunks
    \/ SearchSimilar
    \/ DeleteFile
    \/ DeleteWorkspace
    \/ BackendDeleteWorkspace

Spec == InitStore /\ [][Next]_vars

\* Ingestion: every document, and the operations that read or remove a file.
InitIngest == Init /\ DefaultReranker /\ DefaultLimits

SpecIngest ==
    InitIngest /\ [][ \/ UploadFile
                   \/ SearchSimilar
                   \/ DeleteFile ]_vars

\* Retrieval: every reranker configuration, over a workspace filled by uploads
\* and by the two ways of storing chunks.
InitRag == Init /\ DefaultLimits

SpecRag ==
    InitRag /\ [][ \/ UploadRag
                   \/ StoreRag
                   \/ AddRag
                   \/ SearchContext ]_vars

\* _store_in_pinecone for a new file, which the index holds nothing of: every chunk has an
\* embedding, chunk_id is the chunk's number, and upsert_embeddings gets the
\* whole list.  failing is the batch whose index.upsert raises (0: none).
\* last.batches are the ids of the batches the index accepted.
UpsertEmbeddings ==
    /\ vector_store = "pinecone"
    /\ file_seq < 2
    /\ \A id \in DOMAIN pinecone_index :
           pinecone_index[id].metadata.file_id # FileIdPool[file_seq + 1]
    /\ \E workspace_id \in Workspaces, size \in {0, 1, 100, 101, 250}, failing \in 0..3 :
       \E embeddings_data \in
              {[i \in 1..size |->
                   EmbeddingData(workspace_id, FileIdPool[file_seq + 1],
                                 [ chunk_id |-> ToString(i - 1), text |-> <<"a">>,
                                   embedding |-> <<1, 0>>, filename |-> "a.txt" ])]} :
       \E r \in {upsert_embeddings(pinecone_index, embeddings_data, failing)} :
         LET ids == [i \in 1..size |-> embeddings_data[i].id]
             accepted == IF failing \in 1..NumBatches(ids)
                         THEN failing - 1 ELSE NumBatches(ids)
         IN /\ pinecone_index' = r.index
            /\ last' = [ op |-> "upsert_embeddings",
                         file_id |-> FileIdPool[file_seq + 1], ids |-> ids,
                         batches |-> [j \in 1..accepted |-> Batch(ids, j)],
                         failing |-> failing, before |-> pinecone_index,
                         result |-> r.result ]
    /\ file_seq' = file_seq + 1
    /\ UNCHANGED <<services, in_flight, llm_temperature, chunker, messages, files,
                   workspaces, stored_ok, file_workspace, ops>>

\* Every service constructs its VectorService, and with it its PineconeService,
\* by itself: VECTOR_STORE is the same for all, and _initialize_pinecone succeeds
\* or fails for each.  The embedder is the remote one.
InitInstances ==
    /\ \E configured \in {"pinecone", "mongodb"}, pinecone_available \in [Owners -> BOOLEAN] :
         vector_services =
             [owner \in Owners |-> VectorServiceInit(configured, pinecone_available[owner])]
    /\ vector_store = vector_services.FileService
    /\ openai_embeddings = TRUE
    /\ local_model = FALSE
    /\ DefaultReranker
    /\ DefaultLimits
    /\ messages = <<>>
    /\ chunker = [pc |-> "idle"]
    /\ in_flight = [request \in Requests |-> [pc |-> "idle"]]
    /\ llm_temperature = DEFAULT_TEMPERATURE
    /\ pinecone_index = EmptyMap
    /\ files = EmptyMap
    /\ workspaces = Workspaces
    /\ file_seq = 0
    /\ stored_ok = {}
    /\ file_workspace = EmptyMap
    /\ last = [op |-> "init"]
    /\ ops = 0

\* Upload and store_embeddings by the FileService, search by the RAGService, and
\* the delete of a workspace by the WorkspaceService, each through its own
\* VectorService.
SpecInstances ==
    InitInstances /\ [][ \/ UploadShortFile
                         \/ StoreEmbeddings
                         \/ SearchSimilar
                         \/ BackendDeleteWorkspace ]_vars

\* _store_in_pinecone of one chunk.  workspace_id and file_id are ObjectId
\* strings, of one length and without "_"; chunk_id is the chunk's number as
\* str() gives it.  stored_ok keeps, per triple, the embedding stored last.
StoreChunk ==
    /\ ops < MaxOps
    /\ vector_store = "pinecone"
    /\ \E workspace_id \in Workspaces, file_id \in {"f1", "f2"},
          chunk_id \in {"0", "1", "10"}, embedding \in Queries :
         LET chunk == [ workspace_id |-> workspace_id, file_id |-> file_id,
                        chunk_id |-> chunk_id, embedding |-> embedding ]
             r == store_in_pinecone(pinecone_index, workspace_id, file_id,
                                    << [ chunk_id |-> chunk_id, text |-> <<"a">>,
                                         embedding |-> embedding,
                                         filename |-> "a.txt" ] >>, 0)
         IN /\ pinecone_index' = r.index
            /\ stored_ok' = {c \in stored_ok :
                                \/ c.workspace_id # workspace_id
                                \/ c.file_id # file_id
                                \/ c.chunk_id # chunk_id} \cup {chunk}
            /\ last' = [ op |-> "store_chunk", chunk |-> chunk,
                         again |-> chunk \in stored_ok, before |-> pinecone_index,
                         result |-> r.result ]
    /\ ops' = ops + 1
    /\ UNCHANGED <<services, in_flight, llm_temperature, chunker, messages, files,
                   workspaces, file_seq, file_workspace>>

\* Chunks stored one by one under their composite ids.
SpecChunkId == InitStore /\ [][StoreChunk]_vars

\* _generate_langchain_response, line 255, in one of the requests the shared
\* ChatService serves: self.llm.temperature = temperature.
SetTemperature ==
    /\ \E request \in Requests, temperature \in {0, DEFAULT_TEMPERATURE, 20} :
         /\ in_flight[request].pc = "idle"
         /\ llm_temperature' = temperature
         /\ in_flight' = [in_flight EXCEPT ![request] =
                [pc |-> "temperature_set", temperature |-> temperature]]
    /\ UNCHANGED <<services, chunker, messages, pinecone_index, files, workspaces,
                   file_seq, stored_ok, file_workspace, last, ops>>

\* Line 258: self.llm.invoke(messages) sends the temperature the llm holds then.
InvokeLLM ==
    /\ \E request \in Requests :
         /\ in_flight[request].pc = "temperature_set"
         /\ in_flight' = [in_flight EXCEPT ![request] =
                [ pc |-> "invoked", temperature |-> in_flight[request].temperature,
                  invoked_with |-> llm_temperature ]]
    /\ UNCHANGED <<services, llm_temperature, chunker, messages, pinecone_index, files,
                   workspaces, file_seq, stored_ok, file_workspace, last, ops>>

\* send_message calls served concurrently by the one ChatService.
SpecTemperature == Init /\ [][SetTemperature \/ InvokeLLM]_vars

\* The index fed with the chunks of long files.
SpecUpsert == InitStore /\ [][UpsertEmbeddings]_vars

\* Uploads served concurrently, the embedder absent.
SpecUpload == InitStore /\ [][UploadCheck \/ UploadCreate]_vars

\* The reranker, in each of its configurations.
InitRerank ==
    Init /\ vector_store = "mongodb" /\ ~openai_embeddings /\ ~local_model
         /\ DefaultLimits

SpecRerank ==
    InitRerank /\ [][ \/ RerankChunks
                   \/ RerankImprovement ]_vars

\* The embedder, in each of its configurations.
InitEmbed == Init /\ vector_store = "mongodb" /\ DefaultReranker /\ DefaultLimits

SpecEmbed ==
    InitEmbed /\ [][ \/ CreateEmbeddings
                   \/ CalculateSimilarity
                   \/ FindMostSimilar ]_vars

\* The chunker, on every text.
NextChunk ==
    \/ CreateTextChunks
    \/ ChunkStep

InitChunk == InitStore /\ vector_store = "mongodb"

SpecChunk == InitChunk /\ [][NextChunk]_vars

\* The loop is a sequential program: a pass that can run does run.
SpecChunkLive == SpecChunk /\ WF_vars(ChunkStep)

\* The over-fetch size, under every configuration of the two limits.
InitCfg ==
    Init /\ vector_store = "mongodb" /\ ~openai_embeddings /\ ~local_model
         /\ DefaultReranker

SpecCfg == InitCfg /\ [][RetrievalK]_vars

\* A chat turn over the same workspace.
InitChat == Init /\ DefaultReranker /\ DefaultLimits

SpecChat ==
    InitChat /\ [][ \/ UploadRag
                   \/ AddRag
                   \/ SendMessage ]_vars

(***************************************************************************)
(* Properties of the store (Spec) and of ingestion (SpecIngest).           *)
(***************************************************************************)
Searched == last.op = "search_similar"

\* The entries of workspace w that a search on the selected backend can reach.
HoldsVectors(w) ==
    IF vector_store = "pinecone"
    THEN \E i \in DOMAIN pinecone_index : pinecone_index[i].metadata.workspace_id = w
    ELSE get_chunks_with_embeddings(files, w) # <<>>

\* C1: workspace isolation.  Whatever was stored and deleted before, on either
\* backend every chunk that search_similar(query_embedding, W, k) returns is a
\* chunk of a file uploaded to W, that is, a chunk stored under W.
WorkspaceIsolation ==
    Searched =>
        \A i \in DOMAIN last.results :
            /\ last.results[i].file_id \in DOMAIN file_workspace
            /\ file_workspace[last.results[i].file_id] = last.workspace_id

\* C1, its case: a search on W returned chunks while another workspace held
\* vectors the same query would match.
WorkspaceIsolationCase ==
    /\ Searched
    /\ last.results # <<>>
    /\ \E w \in Workspaces \ {last.workspace_id} : HoldsVectors(w)

\* C2: cascading delete.  Once the record of a file (of a workspace) is gone, no
\* vector-store entry of that file (of a file of that workspace) remains, and a
\* search returns no chunk of a file that has no record.
CascadingDelete ==
    /\ \A i \in DOMAIN pinecone_index :
          /\ pinecone_index[i].metadata.file_id \in DOMAIN files
          /\ pinecone_index[i].metadata.workspace_id \in workspaces
    /\ \A f \in DOMAIN files :
          files[f].text_chunks # <<>> => files[f].workspace_id \in workspaces
    /\ Searched =>
          \A i \in DOMAIN last.results : last.results[i].file_id \in DOMAIN files

\* C3: successful ingestion.  An upload that produced n >= 1 chunks with the
\* embedder available and answering and the vector store accepting the upsert
\* leaves the file READY with exactly n chunks stored, each with an embedding;
\* a text of 1200 characters gives n = 3.
ChunksStored(file_id) ==
    IF vector_store = "pinecone"
    THEN Cardinality({i \in DOMAIN pinecone_index :
                         pinecone_index[i].metadata.file_id = file_id
                         /\ pinecone_index[i].values # <<>>})
    ELSE Cardinality({i \in DOMAIN files[file_id].text_chunks :
                         files[file_id].text_chunks[i].embedding # <<>>})

SuccessfulIngestion ==
    ( /\ last.op = "upload_file"
      /\ last.raised = ""
      /\ last.chunks >= 1
      /\ embedding_is_available(openai_embeddings, local_model)
      /\ ~last.embedder_fails
      /\ last.failing = 0 )
    => /\ files[last.file_id].status = READY
       /\ ChunksStored(last.file_id) = last.chunks
       /\ last.text_len = 1200 => last.chunks = 3

\* C4: store/search round trip.  A chunk c for which store_embeddings returned
\* true is the first result of a search of its workspace with its own embedding.
RoundTripOf(c) ==
    /\ Searched
    /\ ~last.raises
    /\ c.workspace_id = last.workspace_id
    /\ c.embedding = last.query_embedding

Parallel(c) ==
    {i \in DOMAIN pinecone_index \ {c.id} :
        /\ pinecone_index[i].metadata.workspace_id = c.workspace_id
        /\ calculate_similarity(c.embedding, pinecone_index[i].values) = 1000}

Untagged(chunks) ==
    [i \in DOMAIN chunks |->
        [k \in DOMAIN chunks[i] \ {"reranked"} |-> chunks[i][k]]]

\* C6: search_context calls the reranker exactly when the retrieval returned
\* more than top_k chunks and the reranker is available; every returned chunk
\* carries reranked = TRUE exactly when relevance scores were computed in that
\* call, and reranked = FALSE whenever the returned list is just
\* initial_results[:top_k], the identity fallback of rerank_chunks included.
RerankTagging ==
    last.op = "search_context" =>
        /\ "reranker" \in last.called
               <=> ( Len(last.initial_results) > last.top_k
                     /\ reranker_is_available(reranker_service) )
        /\ \A i \in DOMAIN last.results : last.results[i].reranked <=> last.scored
        /\ Untagged(last.results) = Take(last.initial_results, last.top_k)
               => \A i \in DOMAIN last.results : ~last.results[i].reranked

\* C7: with RERANKER_TYPE=disabled, whatever models and keys were loaded, a
\* search that retrieved more than top_k of the stored chunks returns exactly
\* top_k chunks, by descending retrieval score, each with reranked = FALSE.
DisabledReranker ==
    ( /\ last.op = "search_context"
      /\ reranker_service.reranker_type = "disabled"
      /\ Len(last.initial_results) > last.top_k )
    => /\ Len(last.results) = last.top_k
       /\ \A i, j \in DOMAIN last.results :
              i < j => last.results[i].score >= last.results[j].score
       /\ \A i \in DOMAIN last.results : ~last.results[i].reranked

\* C8: for every top_k >= 1, multiplier and max_candidates, retrieval_k is never
\* below 10 and never above max_candidates; with the defaults it is 10 for
\* top_k = 5 and 20 for top_k = 15.
OverFetchSize ==
    last.op = "retrieval_k" =>
        /\ last.retrieval_k >= 10
        /\ last.retrieval_k <= max_candidates
        /\ DefaultLimits /\ last.top_k = 5 => last.retrieval_k = 10
        /\ DefaultLimits /\ last.top_k = 15 => last.retrieval_k = 20

\* C8, amended: retrieval_k is never above max_candidates; it is top_k *
\* multiplier brought into 10..max_candidates when max_candidates >= 10, and
\* max_candidates itself, below 10, when max_candidates < 10; with the defaults
\* it is 10 for top_k = 5 and 20 for top_k = 15.
OverFetchSizeAmended ==
    last.op = "retrieval_k" =>
        LET wanted == last.top_k * retrieval_multiplier
        IN /\ last.retrieval_k <= max_candidates
           /\ max_candidates >= 10 =>
                  /\ last.retrieval_k >= 10
                  /\ last.retrieval_k = IF wanted < 10 THEN 10
                                        ELSE IF wanted > max_candidates
                                        THEN max_candidates
                                        ELSE wanted
           /\ max_candidates < 10 => last.retrieval_k = max_candidates
           /\ DefaultLimits /\ last.top_k = 5 => last.retrieval_k = 10
           /\ DefaultLimits /\ last.top_k = 15 => last.retrieval_k = 20

\* The over-fetch size was computed under a limit below 10.
OverFetchSizeCase ==
    /\ last.op = "retrieval_k"
    /\ max_candidates < 10
    /\ last.top_k = 15
    /\ last.retrieval_k = max_candidates

\* The results are the first chunks of the initial ones, in their order, each
\* with the keys of the initial chunk unchanged.
FirstOf(results, initial) ==
    /\ Len(results) <= Len(initial)
    /\ \A i \in DOMAIN results :
           \A k \in DOMAIN initial[i] :
               k \in DOMAIN results[i] /\ results[i][k] = initial[i][k]

\* C9: search_context never raises.  An exception of a stage becomes a returned
\* list: the text-search result when the query embedding failed, the empty
\* list when the vector search or the text search failed, the first top_k of
\* the initial results when the reranking failed.  A blank query returns the empty list and calls
\* no backend.
SearchNeverRaises ==
    last.op = "search_context" =>
        /\ ~last.raised
        /\ DOMAIN last.results = 1..Len(last.results)
        /\ "embedding" \in last.failed =>
               /\ "text" \in last.called
               /\ \A i \in DOMAIN last.results : last.results[i].search_method = "text"
        /\ last.failed \cap {"vector", "text"} # {} => last.results = <<>>
        /\ "reranker" \in last.failed =>
               /\ Len(last.results) = last.top_k
               /\ FirstOf(last.results, last.initial_results)
        /\ str_strip(last.query) = <<>> =>
               last.results = <<>> /\ last.called = {}

\* A search whose query embedding failed returned the chunks of the text search.
SearchNeverRaisesCase ==
    /\ last.op = "search_context"
    /\ "embedding" \in last.failed
    /\ last.results # <<>>

\* C10: a send_message with use_rag on a thread that references a workspace,
\* the embedder being unavailable or failing, never raises, builds the prompt
\* and, unless a save fails, stores the assistant reply and returns it.
ChatSurvivesDegradedSearch ==
    ( /\ last.op = "send_message"
      /\ last.searched
      /\ ( ~embedding_is_available(openai_embeddings, local_model)
           \/ "embedding" \in last.failed ) )
    => /\ last.raised = ""
       /\ last.prompt # None
       /\ ~last.save_fails =>
              /\ last.response
              /\ messages # <<>>
              /\ messages[Len(messages)].role = "assistant"

\* C11: search_context runs the vector search exactly when the embedder is
\* available and gave a non-empty query embedding, and the text search
\* otherwise; a chunk is tagged 'semantic' exactly when the vector search
\* supplied it and 'text' exactly when the text search did; a text-search
\* chunk has the placeholder score 0.5 and its text contains the query,
\* whatever the case of the letters.
RetrievalMethod ==
    ( last.op = "search_context" /\ str_strip(last.query) # <<>> ) =>
        LET from_text == "text" \in last.called
            Tags(chunks) ==
                \A i \in DOMAIN chunks :
                    /\ chunks[i].search_method = "text" <=> from_text
                    /\ chunks[i].search_method = "semantic" <=> ~from_text
                    /\ from_text =>
                           /\ chunks[i].score = 500
                           /\ RegexMatch(chunks[i].text, last.query)
        IN /\ "vector" \in last.called <=>
                  ( /\ embedding_is_available(openai_embeddings, local_model)
                    /\ last.embedding_ok )
           /\ "vector" \notin last.called => from_text
           /\ "vector" \in last.called => ~from_text
           /\ Tags(last.initial_results)
           /\ Tags(last.results)

\* The embedder is available, the query embedding came back empty, and the text
\* search found a chunk whose text has the query in the other case.
RetrievalMethodCase ==
    /\ last.op = "search_context"
    /\ embedding_is_available(openai_embeddings, local_model)
    /\ ~last.embedding_ok
    /\ \E i \in DOMAIN last.results :
           /\ last.results[i].search_method = "text"
           /\ last.results[i].text[1] = "A"
           /\ last.query = <<"a">>

\* C12: every chunk search_context returns carries text, score, file_id,
\* filename, sequence and search_method, and its sequence is the sequence
\* number of the stored chunk it was read from: defined, and that of the chunk
\* of the file with the same text.
OutputContract ==
    last.op = "search_context" =>
        \A i \in DOMAIN last.results :
            LET chunk == last.results[i]
            IN /\ {"text", "score", "file_id", "filename", "sequence",
                    "search_method"} \subseteq DOMAIN chunk
               /\ chunk.sequence # None
               /\ chunk.file_id \in DOMAIN files =>
                      \A j \in DOMAIN files[chunk.file_id].text_chunks :
                          LET stored == files[chunk.file_id].text_chunks[j]
                          IN ( stored.text = chunk.text /\ "sequence" \in DOMAIN stored )
                                 => chunk.sequence = stored.sequence

\* The backend the configured type designates exists.
UsableBackend(rs) ==
    \/ rs.reranker_type = "cross-encoder" /\ rs.cross_encoder
    \/ rs.reranker_type = "openai" /\ rs.openai_client
    \/ rs.reranker_type = "hybrid" /\ rs.cross_encoder

\* C13: when the reranker is unavailable, the candidate list is empty, the
\* configured type has no usable backend, or the backend call raises,
\* rerank_chunks returns exactly chunks[:k], the caller's chunks are as they
\* were before the call, and for a non-empty list and k >= 1 the result is not
\* empty.
IdentityFallback ==
    ( /\ last.op = "rerank_chunks"
      /\ \/ ~reranker_is_available(reranker_service)
         \/ last.chunks = <<>>
         \/ ~UsableBackend(reranker_service)
         \/ last.answer.raised )
    => /\ last.result = Take(last.chunks, last.top_k)
       /\ last.input = last.chunks
       /\ ( last.chunks # <<>> /\ last.top_k >= 1 ) => last.result # <<>>

\* The key the chunks are sorted by: the score of chunk a, 0 for a chunk the
\* reply holds no score for.
RerankKey(a) == IF a <= Len(last.answer.scores) THEN last.answer.scores[a] ELSE 0

\* Chunk a of the input with the score it was given, if any.
RerankScored(a) ==
    IF a <= Len(last.answer.scores)
    THEN [ rerank_score |-> last.answer.scores[a],
           original_score |-> last.chunks[a].score ] @@ last.chunks[a]
    ELSE last.chunks[a]

\* The result is the input in descending order of the key, chunks of equal key
\* in input order, cut to min(top_k, len(chunks)) chunks: chunk a stands after
\* the chunks that come before it in that order.
StableSortedCut ==
    LET n == Len(last.chunks)
        Before(b, a) == RerankKey(b) > RerankKey(a)
                        \/ (RerankKey(b) = RerankKey(a) /\ b < a)
        Position(a) == 1 + Cardinality({b \in 1..n : Before(b, a)})
    IN /\ Len(last.result) = Min(last.top_k, n)
       /\ \A a \in 1..n :
              Position(a) <= last.top_k => last.result[Position(a)] = RerankScored(a)

\* A cross-encoder or external-API call scored the chunks.
BackendScored ==
    /\ last.op = "rerank_chunks"
    /\ reranker_service.reranker_type \in {"cross-encoder", "openai"}
    /\ last.scored

\* C14: when the cross-encoder or external-API call succeeds, every input chunk
\* is scored, every returned chunk carries rerank_score and original_score, the
\* latter equal to its input score, the result is the input stable-sorted by
\* descending rerank_score and cut to min(top_k, len(chunks)), and the input
\* list and its chunks are unmodified.
BackendRerank ==
    BackendScored =>
        /\ Len(last.answer.scores) >= Len(last.chunks)
        /\ \A i \in DOMAIN last.result :
               /\ {"rerank_score", "original_score"} \subseteq DOMAIN last.result[i]
               /\ last.result[i].original_score = last.result[i].score
        /\ StableSortedCut
        /\ last.input = last.chunks

\* C14, amended: the chunks the reply holds a score for carry rerank_score and
\* original_score, the latter equal to the input score; the cross-encoder
\* scores every chunk, while the external API may answer fewer scores than
\* chunks, and the chunks past the reply are returned as they came, sorted as
\* if their rerank_score were 0; the result is the input stable-sorted by
\* descending rerank_score and cut to min(top_k, len(chunks)), and the input
\* list and its chunks are unmodified.
BackendRerankAmended ==
    BackendScored =>
        /\ reranker_service.reranker_type = "cross-encoder" =>
               Len(last.answer.scores) >= Len(last.chunks)
        /\ \A i \in DOMAIN last.result :
               \/ /\ {"rerank_score", "original_score"} \subseteq DOMAIN last.result[i]
                  /\ last.result[i].original_score = last.result[i].score
               \/ /\ reranker_service.reranker_type = "openai"
                  /\ Len(last.answer.scores) < Len(last.chunks)
                  /\ last.result[i] \in Range(last.chunks)
        /\ StableSortedCut
        /\ last.input = last.chunks

\* The external API answered one score for two chunks: the scored chunk came
\* back first and the other one behind it, as it was in the input.
BackendRerankCase ==
    /\ BackendScored
    /\ reranker_service.reranker_type = "openai"
    /\ Len(last.answer.scores) = 1
    /\ Len(last.result) = 2
    /\ "rerank_score" \in DOMAIN last.result[1]
    /\ "rerank_score" \notin DOMAIN last.result[2]
    /\ last.result[2] \in Range(last.chunks)

\* A search in hybrid mode whose retrieval returned more than top_k chunks,
\* with the reranker available.
HybridSearch ==
    /\ last.op = "search_context"
    /\ reranker_service.reranker_type = "hybrid"
    /\ reranker_is_available(reranker_service)
    /\ Len(last.initial_results) > last.top_k

\* C15: in hybrid mode, when the reranker is available and the retrieval
\* returned more than top_k chunks, the candidates are scored, every returned
\* chunk carries hybrid_score = 0.7 * normalized_rerank + 0.3 *
\* normalized_original, both terms in [0, 1] and so hybrid_score in [0, 1]
\* (ten-thousandths here), and the result is exactly top_k chunks in
\* descending order of hybrid_score, each tagged reranked = TRUE.
HybridRerank ==
    HybridSearch =>
        /\ last.scored
        /\ Len(last.results) = last.top_k
        /\ \A i \in DOMAIN last.results :
               LET chunk == last.results[i]
               IN /\ {"hybrid_score", "rerank_score"} \subseteq DOMAIN chunk
                  /\ chunk.hybrid_score
                        = 7 * Clamp01((chunk.rerank_score + 1000) \div 2)
                          + 3 * Clamp01(chunk.score)
                  /\ chunk.hybrid_score \in 0..10000
                  /\ chunk.reranked
        /\ \A i, j \in DOMAIN last.results :
               i < j => last.results[i].hybrid_score >= last.results[j].hybrid_score

\* The chunker returned from a call on a text longer than MAX_CHUNK_SIZE.
ChunkedLongText ==
    /\ chunker.pc = "done"
    /\ chunker.doc.len > MAX_CHUNK_SIZE

\* C16: for every text longer than 500 characters and every two consecutive
\* chunks, the overlap end_pos - start_pos of the next one is between 0 and
\* CHUNK_OVERLAP: no character lies in a gap between the two spans, and the
\* spans share no more than the configured overlap.
ChunkOverlap ==
    ChunkedLongText =>
        \A i \in 1..(Len(chunker.chunks) - 1) :
            LET overlap == chunker.chunks[i].end_pos - chunker.chunks[i + 1].start_pos
            IN 0 <= overlap /\ overlap <= CHUNK_OVERLAP

\* C17: the loop terminates.  At every test the loop is in, start is below
\* len(text) and the end of the chunk is past start; every pass increases
\* start, and it leaves the loop exactly when start >= len(text); hence a call
\* that entered the loop returns.
ChunkerTerminates ==
    /\ [](chunker.pc = "loop" =>
              /\ chunker.start < chunker.doc.len
              /\ ChunkEnd(chunker.doc, chunker.start) > chunker.start)
    /\ [][chunker.pc = "loop" =>
              /\ chunker'.start > chunker.start
              /\ chunker'.pc = "done" <=> chunker'.start >= chunker.doc.len]_vars
    /\ (chunker.pc = "loop") ~> (chunker.pc = "done")

\* The loop ran at least three passes and the call returned.
ChunkerTerminatesCase ==
    /\ ChunkedLongText
    /\ Len(chunker.chunks) >= 3

\* C18: a text of at most 500 characters that is not whitespace-only gives
\* exactly one chunk: sequence 0, the stripped text, start_pos 0, end_pos
\* len(text).
SmallDocument ==
    ( /\ chunker.pc = "done"
      /\ chunker.doc.len <= MAX_CHUNK_SIZE
      /\ Kept(chunker.doc, 0, chunker.doc.len) # {} )
    => /\ Len(chunker.chunks) = 1
       /\ chunker.chunks[1].sequence = 0
       /\ chunker.chunks[1].text = Strip(chunker.doc, 0, chunker.doc.len)
       /\ chunker.chunks[1].start_pos = 0
       /\ chunker.chunks[1].end_pos = chunker.doc.len

\* A small text with a blank at each end was chunked.
SmallDocumentCase ==
    /\ chunker.pc = "done"
    /\ chunker.doc.len = MAX_CHUNK_SIZE
    /\ chunker.doc.space = {0, MAX_CHUNK_SIZE - 1}
    /\ Len(chunker.chunks) = 1

\* C19: the chunks emitted so far are numbered 0, 1, ..., n-1 in emission
\* order, also after a whitespace-only window was skipped; none has an empty
\* text; an empty or whitespace-only text gives no chunk.
ChunkNumbering ==
    chunker.pc # "idle" =>
        /\ \A i \in DOMAIN chunker.chunks :
               /\ chunker.chunks[i].sequence = i - 1
               /\ chunker.chunks[i].text.from < chunker.chunks[i].text.to
        /\ ( chunker.pc = "done" /\ Kept(chunker.doc, 0, chunker.doc.len) = {} )
               => chunker.chunks = <<>>

\* A whitespace-only window was skipped between two emitted chunks: their
\* starts are further apart than one pass moves start.
ChunkNumberingCase ==
    /\ chunker.pc = "done"
    /\ \E i \in 1..(Len(chunker.chunks) - 1) :
           chunker.chunks[i + 1].start_pos
               > chunker.chunks[i].start_pos + MAX_CHUNK_SIZE

\* C20: create_embeddings returns a list of exactly len(texts) vectors in
\* every case: the empty list for no text, and one empty vector per text when
\* there is no backend or every backend called raised.
EmbeddingLength ==
    last.op = "create_embeddings" =>
        LET total_failure ==
                \/ ~embedding_is_available(openai_embeddings, local_model)
                \/ /\ openai_embeddings /\ last.remote_fails
                   /\ local_model => last.local_fails
                \/ ~openai_embeddings /\ local_model /\ last.local_fails
        IN /\ DOMAIN last.embeddings = 1..Len(last.texts)
           /\ last.texts = <<>> => last.embeddings = <<>>
           /\ total_failure =>
                  \A i \in DOMAIN last.embeddings : last.embeddings[i] = <<>>
           /\ ~total_failure =>
                  \A i \in DOMAIN last.embeddings : last.embeddings[i] # <<>>

\* The model raised for a list of two texts and two empty vectors came back.
EmbeddingLengthCase ==
    /\ last.op = "create_embeddings"
    /\ embedding_is_available(openai_embeddings, local_model)
    /\ Len(last.texts) = 2
    /\ last.embeddings = << <<>>, <<>> >>

\* C21: when the remote embedder was initialised and a batch call to it
\* fails, the call is served by the local model: with the local model not
\* raising, every text gets a non-empty vector.  (That the call switches no
\* backend holds: no action of the embedder assigns openai_embeddings or
\* local_model.)
RemoteToLocalFallback ==
    ( /\ last.op = "create_embeddings"
      /\ openai_embeddings
      /\ last.remote_fails /\ ~last.local_fails
      /\ last.texts # <<>> )
    => \A i \in DOMAIN last.embeddings : last.embeddings[i] # <<>>

\* C22: two non-empty vectors of different dimension are never answered with
\* an ordinary similarity: calculate_similarity returns 0.0 only when an input
\* is empty or a norm is zero (or the vectors, of one dimension, are
\* orthogonal), and find_most_similar ranks no candidate whose embedding is of
\* another dimension than the query.
DimensionMismatch ==
    /\ last.op = "calculate_similarity" =>
           ( last.similarity = 0 =>
                 \/ last.embedding1 = <<>> \/ last.embedding2 = <<>>
                 \/ Norm(last.embedding1) = 0 \/ Norm(last.embedding2) = 0
                 \/ /\ Len(last.embedding1) = Len(last.embedding2)
                    /\ Dot(last.embedding1, last.embedding2) = 0 )
    /\ last.op = "find_most_similar" =>
           \A i \in DOMAIN last.result :
               last.result[i].embedding # <<>>
                   => Len(last.result[i].embedding) = Len(last.query_embedding)

HeldChunks(index, fs, file_id) ==
    IF vector_store = "pinecone"
    THEN {index[i].metadata.chunk_id :
              i \in {j \in DOMAIN index : index[j].metadata.file_id = file_id}}
    ELSE IF file_id \notin DOMAIN fs THEN {}
    ELSE {Get(fs[file_id].text_chunks[i], "chunk_id", "none") :
              i \in DOMAIN fs[file_id].text_chunks}

\* C24: on either backend, once a store_embeddings call for chunks of a file
\* that holds none yet returned TRUE, the backend holds exactly the chunks of
\* the call that carry a non-empty embedding; on MongoDB, where no backend
\* call of the model fails, the call does return TRUE; a call with an empty
\* list returns TRUE and leaves the index and the file documents as they were.
StoreResult ==
    [][ ( last'.op = "store_embeddings" /\ ops' = ops + 1 ) =>
          LET file_id == last'.file_id
              text_chunks == last'.text_chunks
              embedded == {text_chunks[i].chunk_id :
                              i \in {j \in DOMAIN text_chunks :
                                         text_chunks[j].embedding # <<>>}}
              fresh == HeldChunks(pinecone_index, files, file_id) = {}
          IN /\ ( text_chunks # <<>> /\ fresh /\ last'.result )
                    => HeldChunks(pinecone_index', files', file_id) = embedded
             /\ ( text_chunks # <<>> /\ vector_store = "mongodb" /\ fresh )
                    => last'.result
             /\ text_chunks = <<>>
                    => /\ last'.result
                       /\ files' = files
                       /\ pinecone_index' = pinecone_index ]_vars

\* C25: whatever the interleaving of concurrent upload_file calls, at most
\* one file document exists for a workspace and a filename, and of the calls
\* for one pair at most one returned a file, the others being rejected.
DuplicateFilenameSerialised ==
    /\ \A workspace_id \in Workspaces, filename \in Filenames :
           Cardinality(find_by_filename(files, workspace_id, filename)) <= 1
    /\ \A r1, r2 \in Requests :
           ( /\ r1 # r2
             /\ in_flight[r1].pc = "done"
             /\ in_flight[r2].pc = "done" )
           => \/ in_flight[r1].workspace_id # in_flight[r2].workspace_id
              \/ in_flight[r1].filename # in_flight[r2].filename

\* C26: on the lists the pipeline hands over, avg_position_change is the mean,
\* over the reranked chunks, of the position of that same chunk in the
\* original list minus its position in the reranked list, and
\* avg_score_improvement is taken over the chunks that carry rerank_score and
\* original_score with original_score > 0, the others being left out.
RerankImprovementMetrics ==
    ( /\ last.op = "calculate_rerank_improvement"
      /\ last.reranked_chunks # <<>> )
    => LET original == last.original_chunks
           reranked == last.reranked_chunks
           SamePlace(i) == CHOOSE j \in DOMAIN original :
                               original[j].text = reranked[i].text
           moves == [i \in DOMAIN reranked |-> SamePlace(i) - i]
           scored == {i \in DOMAIN reranked :
                         /\ {"rerank_score", "original_score"} \subseteq DOMAIN reranked[i]
                         /\ reranked[i].original_score > 0}
       IN /\ last.metrics.avg_position_change
                = [ total |-> Dot(moves, [i \in DOMAIN moves |-> 1]),
                    count |-> Len(reranked) ]
          /\ last.metrics.avg_score_improvement.count = Cardinality(scored)

\* C27: upsert_embeddings sends the vectors in consecutive batches of at most
\* 100, every vector in one batch and in input order; when batch j fails it
\* returns false, the batches before j stay in the index and no later batch is
\* sent, so the index holds a strict prefix of the file's chunks; when no batch
\* fails it returns true and the index holds them all.  What the index held
\* before stays.
BatchedUpsert ==
    last.op = "upsert_embeddings"
    => LET ids == last.ids
           batches == (Len(ids) + 99) \div 100
           held == {i \in DOMAIN ids : ids[i] \in DOMAIN pinecone_index}
       IN /\ \A j \in DOMAIN last.batches : Len(last.batches[j]) \in 1..100
          /\ Flatten(last.batches) = Take(ids, Len(Flatten(last.batches)))
          /\ \A i \in held : pinecone_index[ids[i]].metadata.file_id = last.file_id
          /\ IF last.failing \in 1..batches
             THEN /\ ~last.result
                  /\ Len(last.batches) = last.failing - 1
                  /\ held = 1..(100 * (last.failing - 1))
                  /\ held # DOMAIN ids
             ELSE /\ last.result
                  /\ Flatten(last.batches) = ids
                  /\ held = DOMAIN ids
          /\ \A id \in DOMAIN last.before :
                 /\ id \in DOMAIN pinecone_index
                 /\ pinecone_index[id] = last.before[id]

\* A file of 250 chunks whose second batch fails, beside another file's vectors.
BatchedUpsertCase ==
    /\ last.op = "upsert_embeddings"
    /\ Len(last.ids) = 250
    /\ last.failing = 2
    /\ ~last.result
    /\ last.before # EmptyMap
    /\ Cardinality({i \in DOMAIN last.ids : last.ids[i] \in DOMAIN pinecone_index}) = 100

\* The vectors of the workspace the Pinecone index or the file documents hold.
BackendHolds(workspace_id) ==
    \/ \E id \in DOMAIN pinecone_index :
           pinecone_index[id].metadata.workspace_id = workspace_id
    \/ get_chunks_with_embeddings(files, workspace_id) # <<>>

\* C28: the backend of a VectorService never changes once constructed, and the
\* VectorService instances of FileService, RAGService and WorkspaceService hold
\* the same backend, so that a search of a workspace whose chunks ingestion
\* stored answers some of them when the backend's query succeeds, and a
\* successful delete of a workspace whose backend call succeeds leaves no vector
\* of it behind.
OneBackend ==
    /\ \A a, b \in Owners : vector_services[a] = vector_services[b]
    /\ ( /\ last.op = "search_similar"
         /\ ~last.raises
         /\ BackendHolds(last.workspace_id) )
       => last.results # <<>>
    /\ ( /\ last.op = "delete_workspace"
         /\ last.result
         /\ ~last.pinecone_raises )
       => ~BackendHolds(last.workspace_id)

\* C29: create_chunk_id gives one id per (workspace_id, file_id, chunk_id) and
\* different ids for different triples: every chunk stored is in the index under
\* the id of its triple with the embedding stored last for it, the index holds
\* as many entries as triples were stored, so no upsert replaced the entry of
\* another chunk, and storing a chunk again as it is leaves the index unchanged.
CompositeIds ==
    /\ \A c \in stored_ok :
          LET id == create_chunk_id(c.workspace_id, c.file_id, c.chunk_id)
          IN /\ id \in DOMAIN pinecone_index
             /\ pinecone_index[id].values = c.embedding
             /\ pinecone_index[id].metadata.workspace_id = c.workspace_id
             /\ pinecone_index[id].metadata.file_id = c.file_id
             /\ pinecone_index[id].metadata.chunk_id = c.chunk_id
    /\ Cardinality(DOMAIN pinecone_index) = Cardinality(stored_ok)
    /\ (last.op = "store_chunk" /\ last.again) => pinecone_index = last.before
    /\ last.op = "store_chunk" => last.result

\* Two chunks that differ in one part of the triple only, both in the index;
\* and a chunk stored a second time.
CompositeIdsCase ==
    /\ last.op = "store_chunk"
    /\ \/ last.again
       \/ \E c \in stored_ok :
             /\ c # last.chunk
             /\ c.workspace_id = last.chunk.workspace_id
             /\ c.chunk_id = last.chunk.chunk_id
             /\ Cardinality(DOMAIN pinecone_index) = 2

\* C30: under every interleaving of concurrent send_message calls on the shared
\* ChatService, the LLM is invoked for a request with the temperature of that
\* request, never with the one another request in flight wrote.
PerRequestTemperature ==
    \A request \in Requests :
        in_flight[request].pc = "invoked"
        => in_flight[request].invoked_with = in_flight[request].temperature

====
